---- MODULE Spec2Model ----
(***************************************************************************)
(* Timeline validation and context extraction of the video-analysis        *)
(* pipeline (services/ml_data_validator.py, test_ml_data_integrity.py,     *)
(* run_video_prompts_safe.py, run_video_prompts_validated_v2.py).          *)
(*                                                                         *)
(* Every operation of the program is a synchronous function of its         *)
(* arguments.  A behaviour starts in a state that holds the arguments of   *)
(* one call (input), and one action per operation runs that operation and  *)
(* records which one ran (op) and what it returned or raised (out).        *)
(*                                                                         *)
(* Strings that the code parses (timeline keys) are sequences of           *)
(* one-character strings, so that split, int, rstrip and the regular       *)
(* expression are computed character by character.  A Python dict is a     *)
(* sequence of entries [k, v] with distinct keys, in insertion order.      *)
(***************************************************************************)
EXTENDS Integers, Sequences, FiniteSets, TLC

VARIABLES input, op, out
vars == <<input, op, out>>

----------------------------------------------------------------------------
(* Bounds of the model *)

MaxLen == 3          \* longest timeline (entries) given to the samplers
MaxEntries == 2      \* largest max_entries bound M given to the samplers

----------------------------------------------------------------------------
(* Characters and Python string primitives *)

Digits == {"0", "1", "2", "3", "4", "5", "6", "7", "8", "9"}
Whitespace == {" ", "\n"}

DigitVal(c) ==
  CASE c = "0" -> 0 [] c = "1" -> 1 [] c = "2" -> 2 [] c = "3" -> 3
    [] c = "4" -> 4 [] c = "5" -> 5 [] c = "6" -> 6 [] c = "7" -> 7
    [] c = "8" -> 8 [] c = "9" -> 9

IsDigits(s) == Len(s) > 0 /\ \A i \in 1..Len(s) : s[i] \in Digits

RECURSIVE DigitsVal(_)
DigitsVal(s) ==
  IF s = <<>> THEN 0
  ELSE 10 * DigitsVal(SubSeq(s, 1, Len(s) - 1)) + DigitVal(s[Len(s)])

RECURSIVE LStrip(_, _)
LStrip(s, cs) ==
  IF s # <<>> /\ s[1] \in cs THEN LStrip(Tail(s), cs) ELSE s

RECURSIVE RStrip(_, _)
RStrip(s, cs) ==
  IF s # <<>> /\ s[Len(s)] \in cs THEN RStrip(SubSeq(s, 1, Len(s) - 1), cs) ELSE s

Strip(s, cs) == RStrip(LStrip(s, cs), cs)

HasChar(s, c) == \E i \in 1..Len(s) : s[i] = c

EndsWith(s, c) == s # <<>> /\ s[Len(s)] = c

FirstIndex(s, c) == CHOOSE i \in 1..Len(s) : s[i] = c /\ \A j \in 1..(i - 1) : s[j] # c

\* str.split(c): the parts between the occurrences of c
RECURSIVE Split(_, _)
Split(s, c) ==
  IF ~HasChar(s, c) THEN <<s>>
  ELSE LET i == FirstIndex(s, c)
       IN <<SubSeq(s, 1, i - 1)>> \o Split(SubSeq(s, i + 1, Len(s)), c)

\* int(s): surrounding whitespace and one sign are accepted, then digits only
PyIntBody(s) ==
  LET t == Strip(s, Whitespace)
  IN IF t # <<>> /\ t[1] \in {"+", "-"} THEN Tail(t) ELSE t

PyIntOk(s) == IsDigits(PyIntBody(s))

PyInt(s) ==
  LET t == Strip(s, Whitespace)
      v == DigitsVal(PyIntBody(s))
  IN IF t # <<>> /\ t[1] = "-" THEN 0 - v ELSE v

\* float(s) on the key alphabet of the model (no '.', no exponent): as int(s)
PyFloatOk(s) == PyIntOk(s)
PyFloat(s) == PyInt(s)

Max(a, b) == IF a >= b THEN a ELSE b
Min(a, b) == IF a <= b THEN a ELSE b

----------------------------------------------------------------------------
(* Results of a call: a returned value or a raised exception *)

Return(v) == [exc |-> "none", val |-> v]
Raise(e) == [exc |-> e]
Raised(r) == r.exc # "none"

----------------------------------------------------------------------------
(* Timeline keys used as inputs *)

K_0_1s == <<"0", "-", "1", "s">>
K_1_2s == <<"1", "-", "2", "s">>
K_2_3s == <<"2", "-", "3", "s">>
K_3_4s == <<"3", "-", "4", "s">>
K_5_6s == <<"5", "-", "6", "s">>
K_9_10s == <<"9", "-", "1", "0", "s">>
K_10_11s == <<"1", "0", "-", "1", "1", "s">>
K_15_16s == <<"1", "5", "-", "1", "6", "s">>
K_3_4 == <<"3", "-", "4">>
K_3_xs == <<"3", "-", "x", "s">>
K_abc == <<"a", "b", "c">>
K_abc_def == <<"a", "b", "c", "-", "d", "e", "f">>
K_0_1s_nl == <<"0", "-", "1", "s", "\n">>
K_7 == <<"7">>
K_12 == <<"1", "2">>
K_3 == <<"3">>

\* a name (field, timeline kind, object label) as a dict key: one token
N(name) == <<name>>

\* dicts as sequences of entries with distinct keys
Entry(k, v) == [k |-> k, v |-> v]
KeysOf(d) == {d[i].k : i \in 1..Len(d)}
HasKey(d, k) == \E i \in 1..Len(d) : d[i].k = k
Get(d, k) == d[CHOOSE i \in 1..Len(d) : d[i].k = k].v
\* dict.get(key, default)
GetOr(d, k, default) == IF HasKey(d, k) THEN Get(d, k) ELSE default
DistinctKeys(d) == \A i, j \in 1..Len(d) : d[i].k = d[j].k => i = j

\* all dicts of at most n entries taken from the set es of entries
DictsOver(es, n) ==
  {d \in UNION {[1..m -> es] : m \in 0..n} : DistinctKeys(d)}

\* all dicts of at most n entries with keys from ks and values from vs
DictsUpTo(ks, vs, n) == DictsOver({Entry(k, v) : k \in ks, v \in vs}, n)

\* d[k] = v on a dict: replaces the value of k or appends the entry
Put(d, k, v) ==
  IF HasKey(d, k) THEN [i \in 1..Len(d) |-> IF d[i].k = k THEN Entry(k, v) ELSE d[i]]
  ELSE Append(d, Entry(k, v))

----------------------------------------------------------------------------
(* Sorting as Python's sorted(): stable, by an integer key *)

\* insert item x (with sort key x.key) after every item whose key is <= x.key
RECURSIVE InsertStable(_, _)
InsertStable(sorted, x) ==
  IF sorted = <<>> THEN <<x>>
  ELSE IF sorted[Len(sorted)].key <= x.key THEN Append(sorted, x)
  ELSE Append(InsertStable(SubSeq(sorted, 1, Len(sorted) - 1), x), sorted[Len(sorted)])

RECURSIVE StableSort(_)
StableSort(items) ==
  IF items = <<>> THEN <<>>
  ELSE InsertStable(StableSort(SubSeq(items, 1, Len(items) - 1)), items[Len(items)])

\* seq[::step]
RECURSIVE Stride(_, _)
Stride(seq, step) ==
  IF seq = <<>> THEN <<>>
  ELSE <<seq[1]>> \o Stride(SubSeq(seq, step + 1, Len(seq)), step)

----------------------------------------------------------------------------
(* MLDataValidator._sample_timeline *)

SampleKeyOk(k) == HasChar(k, "-") => PyIntOk(Split(k, "-")[1])
SampleKey(k) == IF HasChar(k, "-") THEN PyInt(Split(k, "-")[1]) ELSE 0

_sample_timeline(timeline, max_entries) ==
  IF Len(timeline) <= max_entries THEN Return(timeline)
  ELSE IF \E i \in 1..Len(timeline) : ~SampleKeyOk(timeline[i].k)
       THEN Raise("ValueError")
  ELSE IF max_entries = 0 THEN Raise("ZeroDivisionError")
  ELSE LET sorted_items == StableSort([i \in 1..Len(timeline) |->
                             [key |-> SampleKey(timeline[i].k), item |-> timeline[i]]])
           step == Max(1, Len(sorted_items) \div max_entries)
           strided == Stride(sorted_items, step)
       IN Return([i \in 1..Len(strided) |-> strided[i].item])

(* truncate_timeline_for_prompt *)

truncate_timeline_for_prompt(timeline, max_entries) ==
  IF Len(timeline) > max_entries
  THEN IF \E i \in 1..Len(timeline) : ~PyFloatOk(timeline[i].k)
       THEN Raise("ValueError")
       ELSE IF max_entries = 0 THEN Raise("ZeroDivisionError")
       ELSE LET keys == StableSort([i \in 1..Len(timeline) |->
                          [key |-> PyFloat(timeline[i].k), item |-> timeline[i]]])
                step == Max(1, Len(keys) \div max_entries)
                sampled_keys == Stride(keys, step)
            IN Return([i \in 1..Len(sampled_keys) |-> sampled_keys[i].item])
  ELSE Return(timeline)

----------------------------------------------------------------------------
(* Specification of the samplers: a timeline and a bound M >= 1 *)

SampleKeys == {K_0_1s, K_1_2s, K_10_11s, K_abc_def, K_7, K_12, K_3}

InitSample ==
  /\ input \in [timeline : DictsUpTo(SampleKeys, {"rec"}, MaxLen), max_entries : 1..MaxEntries]
  /\ op = "input"
  /\ out = Return(<<>>)

SampleTimeline ==
  /\ op = "input"
  /\ op' = "_sample_timeline"
  /\ out' = _sample_timeline(input.timeline, input.max_entries)
  /\ UNCHANGED input

TruncateTimelineForPrompt ==
  /\ op = "input"
  /\ op' = "truncate_timeline_for_prompt"
  /\ out' = truncate_timeline_for_prompt(input.timeline, input.max_entries)
  /\ UNCHANGED input

NextSample == SampleTimeline \/ TruncateTimelineForPrompt

SpecSample == InitSample /\ [][NextSample]_vars

\* C1: the even-sampling step returns at most M entries for every timeline
\* and every bound M >= 1.
C1_BoundedOutput ==
  (op \in {"_sample_timeline", "truncate_timeline_for_prompt"} /\ ~Raised(out))
    => Len(out.val) <= input.max_entries

----------------------------------------------------------------------------
(* JSON values: the type of a value decides what isinstance, 'in', [] and  *)
(* .items() do with it.  Dict keys and text leaves are token sequences: a  *)
(* timeline key or a text is one token per character, a name is one token. *)

JNone == [t |-> "none"]
JNum(n) == [t |-> "num", n |-> n]
JStr(s) == [t |-> "str", s |-> s]
JList(items) == [t |-> "list", items |-> items]
JDict(d) == [t |-> "dict", d |-> d]
IsDict(v) == v.t = "dict"
IsList(v) == v.t = "list"

----------------------------------------------------------------------------
(* MLDataValidator._is_valid_timestamp: re.match(r'^\d+-\d+s$', timestamp) *)

\* length of the longest prefix of s made of digits (\d+ is greedy and the
\* characters that follow it in the pattern are not digits)
RECURSIVE DigitRun(_)
DigitRun(s) == IF s # <<>> /\ s[1] \in Digits THEN 1 + DigitRun(Tail(s)) ELSE 0

\* the pattern with the trailing 's' made optional
_is_valid_timestamp_OptionalSuffix(timestamp) ==
  LET n1 == DigitRun(timestamp)
      r1 == SubSeq(timestamp, n1 + 1, Len(timestamp))
      r2 == IF r1 # <<>> THEN Tail(r1) ELSE <<>>
      n2 == DigitRun(r2)
      r3 == SubSeq(r2, n2 + 1, Len(r2))
  IN /\ n1 > 0
     /\ r1 # <<>> /\ r1[1] = "-"
     /\ n2 > 0
     /\ (IF r3 # <<>> /\ r3[1] = "s" THEN Tail(r3) ELSE r3) \in {<<>>, <<"\n">>}

_is_valid_timestamp(timestamp) ==
  LET n1 == DigitRun(timestamp)
      r1 == SubSeq(timestamp, n1 + 1, Len(timestamp))
      r2 == IF r1 # <<>> THEN Tail(r1) ELSE <<>>
      n2 == DigitRun(r2)
      r3 == SubSeq(r2, n2 + 1, Len(r2))
  IN /\ n1 > 0
     /\ r1 # <<>> /\ r1[1] = "-"
     /\ n2 > 0
     /\ r3 # <<>> /\ r3[1] = "s"
     \* '$' matches at the end and before a newline that ends the string
     /\ Tail(r3) \in {<<>>, <<"\n">>}

(* MLDataValidator.validate_timeline_data *)

TimestampIssue(timeline_name, timestamp) ==
  <<"Invalid timestamp format in", timeline_name, timestamp>>

\* the issues one (timestamp, data) item appends, in order
ItemIssues(timeline_name, timestamp, data) ==
  (IF ~_is_valid_timestamp(timestamp)
   THEN <<TimestampIssue(timeline_name, timestamp)>> ELSE <<>>)
  \o
  (IF timeline_name = N("objectTimeline")
   THEN IF ~IsDict(data)
        THEN <<<<"Invalid data at", timestamp, timeline_name>>>>
        ELSE IF ~HasKey(data.d, N("objects")) \/ ~IsDict(Get(data.d, N("objects")))
             THEN <<<<"Missing or invalid 'objects' field at", timestamp>>>>
             ELSE <<>>
   ELSE IF timeline_name = N("textOverlayTimeline")
   THEN IF ~IsDict(data)
        THEN <<<<"Invalid data at", timestamp, timeline_name>>>>
        ELSE IF HasKey(data.d, N("texts")) /\ ~IsList(Get(data.d, N("texts")))
             THEN <<<<"Invalid 'texts' field at", timestamp>>>>
             ELSE <<>>
   ELSE IF timeline_name = N("speechTimeline")
   THEN IF ~IsDict(data)
        THEN <<<<"Invalid data at", timestamp, timeline_name>>>>
        ELSE <<>>
   ELSE <<>>)

RECURSIVE TimelineIssues(_, _)
TimelineIssues(timeline_data, timeline_name) ==
  IF timeline_data = <<>> THEN <<>>
  ELSE ItemIssues(timeline_name, timeline_data[1].k, timeline_data[1].v)
       \o TimelineIssues(Tail(timeline_data), timeline_name)

validate_timeline_data(timeline_data, timeline_name) ==
  IF timeline_data = <<>> THEN Return(<<TRUE, <<>>>>)
  ELSE LET issues == TimelineIssues(timeline_data, timeline_name)
       IN Return(<<Len(issues) = 0, issues>>)

----------------------------------------------------------------------------
(* Specification of timeline validation: a timeline and its kind *)

MaxTimeline == 2     \* longest timeline given to validate_timeline_data

TimelineKeys == {K_0_1s, K_10_11s, K_3_4, K_abc, K_0_1s_nl}
TimelineData ==
  { JStr(<<"x">>),
    JDict(<<>>),
    JDict(<<Entry(N("objects"), JDict(<<>>)), Entry(N("texts"), JList(<<>>))>>),
    JDict(<<Entry(N("objects"), JList(<<>>)), Entry(N("texts"), JStr(<<"x">>))>>) }
TimelineNames == {N("objectTimeline"), N("textOverlayTimeline"), N("speechTimeline"),
                  N("gestureTimeline")}

InitTimeline ==
  /\ input \in [timeline : DictsUpTo(TimelineKeys, TimelineData, MaxTimeline),
                timeline_name : TimelineNames]
  /\ op = "input"
  /\ out = Return(<<>>)

ValidateTimelineData ==
  /\ op = "input"
  /\ op' = "validate_timeline_data"
  /\ out' = validate_timeline_data(input.timeline, input.timeline_name)
  /\ UNCHANGED input

NextTimeline == ValidateTimelineData

SpecTimeline == InitTimeline /\ [][NextTimeline]_vars

\* a key of the form <digits>-<digits>s, as ^\d+-\d+s$ accepts it ('$' also
\* accepts one newline that ends the key)
MatchesIntervalPattern(k) ==
  \E body \in {k} \cup (IF EndsWith(k, "\n") THEN {SubSeq(k, 1, Len(k) - 1)} ELSE {}) :
    \E p \in 1..Len(body) :
      /\ body[p] = "-"
      /\ IsDigits(SubSeq(body, 1, p - 1))
      /\ Len(body) >= p + 2
      /\ IsDigits(SubSeq(body, p + 1, Len(body) - 1))
      /\ body[Len(body)] = "s"

CountOf(seq, x) == Cardinality({i \in 1..Len(seq) : seq[i] = x})

\* C7: an empty timeline is valid; for a non-empty timeline every key that
\* does not match ^\d+-\d+s$ gets exactly one timestamp-format issue (keys
\* after a bad key are still checked), a matching key gets none, and ok is
\* true iff no issue was recorded.
C7_TimelineValidation ==
  op = "validate_timeline_data" =>
    /\ ~Raised(out)
    /\ input.timeline = <<>> => out.val = <<TRUE, <<>>>>
    /\ \A k \in KeysOf(input.timeline) :
         CountOf(out.val[2], TimestampIssue(input.timeline_name, k))
           = IF MatchesIntervalPattern(k) THEN 0 ELSE 1
    /\ out.val[1] <=> (out.val[2] = <<>>)

\* a bad key followed by another bad key, both reported
C7_Witness ==
  /\ op = "validate_timeline_data"
  /\ Len(input.timeline) = 2
  /\ ~MatchesIntervalPattern(input.timeline[1].k)
  /\ ~MatchesIntervalPattern(input.timeline[2].k)
  /\ CountOf(out.val[2], TimestampIssue(input.timeline_name, input.timeline[2].k)) = 1
  /\ out.val[1] = FALSE

----------------------------------------------------------------------------
(* Python operators whose outcome depends on the type of the operand *)

\* 'name in v' is defined for containers; on None or a number it raises
InOk(v) == v.t \in {"dict", "list", "str"}
\* every name looked up is longer than the one-character strings of the model
In(name, v) ==
  CASE v.t = "dict" -> HasKey(v.d, name)
    [] v.t = "list" -> \E i \in 1..Len(v.items) : v.items[i] = JStr(name)
    [] v.t = "str" -> FALSE

----------------------------------------------------------------------------
(* MLDataValidator.validate_unified_analysis *)

required_fields == <<N("video_id"), N("timelines"), N("static_metadata"), N("duration_seconds")>>
expected_timelines == <<N("objectTimeline"), N("textOverlayTimeline"), N("speechTimeline"),
                        N("gestureTimeline"), N("expressionTimeline"), N("stickerTimeline")>>

RECURSIVE RequiredFieldIssues(_, _)
RequiredFieldIssues(unified_data, fields) ==
  IF fields = <<>> THEN <<>>
  ELSE (IF ~HasKey(unified_data, fields[1])
        THEN <<<<"Missing required field", fields[1]>>>> ELSE <<>>)
       \o RequiredFieldIssues(unified_data, Tail(fields))

\* the loop over expected_timelines; raises where 'in' or [] raises
RECURSIVE ExpectedTimelineIssues(_, _)
ExpectedTimelineIssues(timelines, names) ==
  IF names = <<>> THEN Return(<<>>)
  ELSE IF ~InOk(timelines) THEN Raise("TypeError")
  ELSE IF ~In(names[1], timelines)
       THEN LET rest == ExpectedTimelineIssues(timelines, Tail(names))
            IN IF Raised(rest) THEN rest
               ELSE Return(<<<<"Missing timeline", names[1]>>>> \o rest.val)
  ELSE IF ~IsDict(timelines) THEN Raise("TypeError")
  ELSE LET rest == ExpectedTimelineIssues(timelines, Tail(names))
       IN IF Raised(rest) THEN rest
          ELSE IF ~IsDict(Get(timelines.d, names[1]))
               THEN Return(<<<<"Invalid timeline format", names[1]>>>> \o rest.val)
               ELSE rest

StatsIssues(metadata) ==
  IF ~InOk(metadata) THEN Raise("TypeError")
  ELSE IF ~In(N("stats"), metadata) THEN Return(<<>>)
  ELSE IF ~IsDict(metadata) THEN Raise("TypeError")
  ELSE IF ~IsDict(Get(metadata.d, N("stats")))
       THEN Return(<<<<"Invalid stats format in static_metadata">>>>)
       ELSE Return(<<>>)

validate_unified_analysis(unified_data) ==
  LET fieldIssues == RequiredFieldIssues(unified_data, required_fields)
      timelineIssues == IF HasKey(unified_data, N("timelines"))
                        THEN ExpectedTimelineIssues(Get(unified_data, N("timelines")),
                                                    expected_timelines)
                        ELSE Return(<<>>)
      statsIssues == IF HasKey(unified_data, N("static_metadata"))
                     THEN StatsIssues(Get(unified_data, N("static_metadata")))
                     ELSE Return(<<>>)
  IN IF Raised(timelineIssues) THEN timelineIssues
     ELSE IF Raised(statsIssues) THEN statsIssues
     ELSE LET issues == fieldIssues \o timelineIssues.val \o statsIssues.val
          IN Return(<<Len(issues) = 0, issues>>)

----------------------------------------------------------------------------
(* MLDataValidator._filter_timeline_by_seconds *)

RECURSIVE _filter_timeline_by_seconds(_, _)
_filter_timeline_by_seconds(timeline, max_seconds) ==
  IF timeline = <<>> THEN <<>>
  ELSE LET timestamp == timeline[1].k
           start == Split(timestamp, "-")[1]
           rest == _filter_timeline_by_seconds(Tail(timeline), max_seconds)
       IN IF PyIntOk(start) /\ PyInt(start) < max_seconds
          THEN <<timeline[1]>> \o rest
          ELSE rest

(* MLDataValidator._get_timeline_summary *)

\* object_counts[obj] = object_counts.get(obj, 0) + count over one 'objects' dict
RECURSIVE AddObjectCounts(_, _)
AddObjectCounts(object_counts, objects) ==
  IF objects = <<>> THEN Return(object_counts)
  ELSE IF objects[1].v.t # "num" THEN Raise("TypeError")
  ELSE LET obj == objects[1].k
           old == IF HasKey(object_counts, obj) THEN Get(object_counts, obj) ELSE 0
       IN AddObjectCounts(Put(object_counts, obj, old + objects[1].v.n), Tail(objects))

RECURSIVE ObjectCounts(_, _)
ObjectCounts(object_counts, timeline_data) ==
  IF timeline_data = <<>> THEN Return(object_counts)
  ELSE LET entry == timeline_data[1].v
       IN IF IsDict(entry) /\ HasKey(entry.d, N("objects"))
          THEN IF ~IsDict(Get(entry.d, N("objects"))) THEN Raise("AttributeError")
               ELSE LET added == AddObjectCounts(object_counts, Get(entry.d, N("objects")).d)
                    IN IF Raised(added) THEN added
                       ELSE ObjectCounts(added.val, Tail(timeline_data))
          ELSE ObjectCounts(object_counts, Tail(timeline_data))

RECURSIVE SumCounts(_)
SumCounts(object_counts) ==
  IF object_counts = <<>> THEN 0 ELSE object_counts[1].v + SumCounts(Tail(object_counts))

PyLenOk(v) == v.t \in {"dict", "list", "str"}
PyLen(v) ==
  CASE v.t = "dict" -> Len(v.d) [] v.t = "list" -> Len(v.items) [] v.t = "str" -> Len(v.s)

RECURSIVE TextCount(_, _)
TextCount(text_count, timeline_data) ==
  IF timeline_data = <<>> THEN Return(text_count)
  ELSE LET entry == timeline_data[1].v
       IN IF IsDict(entry) /\ HasKey(entry.d, N("texts"))
          THEN IF ~PyLenOk(Get(entry.d, N("texts"))) THEN Raise("TypeError")
               ELSE TextCount(text_count + PyLen(Get(entry.d, N("texts"))), Tail(timeline_data))
          ELSE TextCount(text_count, Tail(timeline_data))

\* the summary entry of one timeline
TimelineSummary(timeline_name, timeline_data) ==
  LET base == <<Entry(N("entry_count"), JNum(Len(timeline_data))),
                Entry(N("has_data"), [t |-> "bool", b |-> Len(timeline_data) > 0])>>
  IN IF timeline_name = N("objectTimeline")
     THEN LET counts == ObjectCounts(<<>>, timeline_data)
          IN IF Raised(counts) THEN counts
             ELSE Return(JDict(base \o
                    <<Entry(N("unique_objects"),
                            JList([i \in 1..Len(counts.val) |-> JStr(counts.val[i].k)])),
                      Entry(N("total_detections"), JNum(SumCounts(counts.val)))>>))
     ELSE IF timeline_name = N("textOverlayTimeline")
     THEN LET texts == TextCount(0, timeline_data)
          IN IF Raised(texts) THEN texts
             ELSE Return(JDict(base \o <<Entry(N("total_text_detections"), JNum(texts.val))>>))
     ELSE Return(JDict(base))

RECURSIVE SummaryLoop(_)
SummaryLoop(items) ==
  IF items = <<>> THEN Return(<<>>)
  ELSE IF ~IsDict(items[1].v) THEN SummaryLoop(Tail(items))
  ELSE LET one == TimelineSummary(items[1].k, items[1].v.d)
       IN IF Raised(one) THEN one
          ELSE LET rest == SummaryLoop(Tail(items))
               IN IF Raised(rest) THEN rest
                  ELSE Return(<<Entry(items[1].k, one.val)>> \o rest.val)

_get_timeline_summary(timelines) ==
  IF ~IsDict(timelines) THEN Raise("AttributeError")
  ELSE LET summary == SummaryLoop(timelines.d)
       IN IF Raised(summary) THEN summary ELSE Return(JDict(summary.val))

----------------------------------------------------------------------------
(* json.dumps(value).lower() and the substring test 'pattern in text'.     *)
(* The text is a sequence of tokens: one token per character of a string   *)
(* leaf or timeline key, one token per name (no name of the model contains *)
(* a suspicious pattern).                                                  *)

RECURSIVE IntChars(_)
IntChars(n) ==
  IF n < 0 THEN <<"-">> \o IntChars(0 - n)
  ELSE IF n < 10 THEN <<CHOOSE c \in Digits : DigitVal(c) = n>>
  ELSE IntChars(n \div 10) \o IntChars(n % 10)

\* the characters of a JSON string body, escaped as json.dumps escapes them
RECURSIVE Escaped(_)
Escaped(s) ==
  IF s = <<>> THEN <<>>
  ELSE (CASE s[1] = "\n" -> <<"\\", "n">>
          [] s[1] = "\"" -> <<"\\", "\"">>
          [] s[1] = "\\" -> <<"\\", "\\">>
          [] OTHER -> <<s[1]>>) \o Escaped(Tail(s))

Quoted(chars) == <<"\"">> \o chars \o <<"\"">>


RECURSIVE Dumps(_)
RECURSIVE DumpItems(_)
RECURSIVE DumpEntries(_)
Dumps(v) ==
  CASE v.t = "none" -> <<"null">>
    [] v.t = "bool" -> IF v.b THEN <<"true">> ELSE <<"false">>
    [] v.t = "num" -> IntChars(v.n)
    [] v.t = "str" -> Quoted(Escaped(v.s))
    [] v.t = "list" -> <<"[">> \o DumpItems(v.items) \o <<"]">>
    [] v.t = "dict" -> <<"{">> \o DumpEntries(v.d) \o <<"}">>
DumpItems(items) ==
  IF items = <<>> THEN <<>>
  ELSE Dumps(items[1]) \o (IF Len(items) > 1 THEN <<",", " ">> ELSE <<>>) \o DumpItems(Tail(items))
DumpEntries(d) ==
  IF d = <<>> THEN <<>>
  ELSE Quoted(Escaped(d[1].k)) \o <<":", " ">> \o Dumps(d[1].v)
       \o (IF Len(d) > 1 THEN <<",", " ">> ELSE <<>>) \o DumpEntries(Tail(d))

LowerChar(c) ==
  CASE c = "A" -> "a"
    [] c = "B" -> "b"
    [] c = "C" -> "c"
    [] c = "D" -> "d"
    [] c = "E" -> "e"
    [] c = "F" -> "f"
    [] c = "G" -> "g"
    [] c = "H" -> "h"
    [] c = "I" -> "i"
    [] c = "J" -> "j"
    [] c = "K" -> "k"
    [] c = "L" -> "l"
    [] c = "M" -> "m"
    [] c = "N" -> "n"
    [] c = "O" -> "o"
    [] c = "P" -> "p"
    [] c = "Q" -> "q"
    [] c = "R" -> "r"
    [] c = "S" -> "s"
    [] c = "T" -> "t"
    [] c = "U" -> "u"
    [] c = "V" -> "v"
    [] c = "W" -> "w"
    [] c = "X" -> "x"
    [] c = "Y" -> "y"
    [] c = "Z" -> "z"
    [] OTHER -> c

Lower(text) == [i \in 1..Len(text) |-> LowerChar(text[i])]

\* 'pattern in text'
Contains(text, pattern) ==
  \E i \in 1..(Len(text) - Len(pattern) + 1) :
    /\ text[i] = pattern[1]
    /\ SubSeq(text, i, i + Len(pattern) - 1) = pattern

P_link_in_bio == <<"l", "i", "n", "k", " ", "i", "n", " ", "b", "i", "o">>
P_swipe_up == <<"s", "w", "i", "p", "e", " ", "u", "p">>
P_example_com == <<"e", "x", "a", "m", "p", "l", "e", ".", "c", "o", "m">>
P_lorem_ipsum == <<"l", "o", "r", "e", "m", " ", "i", "p", "s", "u", "m">>
P_test_test_test == <<"t", "e", "s", "t", " ", "t", "e", "s", "t", " ", "t", "e", "s", "t">>
P_placeholder == <<"p", "l", "a", "c", "e", "h", "o", "l", "d", "e", "r">>
P_todo == <<"t", "o", "d", "o", ":">>
P_fixme == <<"f", "i", "x", "m", "e", ":">>
P_insert_here == <<"[", "i", "n", "s", "e", "r", "t", " ", "h", "e", "r", "e", "]">>
P_coming_soon == <<"c", "o", "m", "i", "n", "g", " ", "s", "o", "o", "n">>
P_tap_here == <<"t", "a", "p", " ", "h", "e", "r", "e">>
P_click_link == <<"c", "l", "i", "c", "k", " ", "l", "i", "n", "k">>

----------------------------------------------------------------------------
(* MLDataValidator.validate_prompt_context *)

context_suspicious_patterns == <<P_link_in_bio, P_swipe_up, P_example_com, P_lorem_ipsum>>

RECURSIVE PatternWarnings(_, _)
PatternWarnings(context_str, patterns) ==
  IF patterns = <<>> THEN <<>>
  ELSE (IF Contains(context_str, patterns[1])
        THEN <<<<"Suspicious pattern detected", patterns[1]>>>> ELSE <<>>)
       \o PatternWarnings(context_str, Tail(patterns))

\* context_data is a dict here (every caller passes one)
validate_prompt_context(prompt_name, context_data) ==
  LET context_str == Lower(Dumps(JDict(context_data)))
      warnings ==
        PatternWarnings(context_str, context_suspicious_patterns)
        \o (IF prompt_name = "hook_analysis"
            THEN IF ~HasKey(context_data, N("first_5_seconds")) /\ ~HasKey(context_data, N("timeline_samples"))
                 THEN <<<<"Missing timeline data for hook analysis">>>> ELSE <<>>
            ELSE IF prompt_name = "engagement_triggers"
            THEN IF ~HasKey(context_data, N("timeline_samples"))
                 THEN <<<<"Missing timeline samples for engagement analysis">>>> ELSE <<>>
            ELSE <<>>)
        \o (IF ~HasKey(context_data, N("_validation"))
            THEN <<<<"Context data not validated by MLDataValidator">>>> ELSE <<>>)
  IN Return(<<Len(warnings) = 0, warnings>>)

----------------------------------------------------------------------------
(* MLDataValidator.extract_safe_context_data *)

CaptionLimit == 500
DefaultMaxTimelineEntries == 50

\* datetime.now().isoformat(): some timestamp, one token
Now == JStr(<<"<now>">>)

\* value[:n]
SliceOk(v) == v.t \in {"str", "list"}
Slice(v, n) ==
  IF v.t = "str" THEN JStr(SubSeq(v.s, 1, Min(Len(v.s), n)))
  ELSE JList(SubSeq(v.items, 1, Min(Len(v.items), n)))

\* the 'static_metadata' block: context entries for caption and stats
MetadataContext(context, metadata) ==
  IF ~InOk(metadata) THEN Raise("TypeError")
  ELSE LET withCaption ==
             IF In(N("captionText"), metadata)
             THEN IF ~IsDict(metadata) THEN Raise("TypeError")
                  ELSE IF ~SliceOk(Get(metadata.d, N("captionText"))) THEN Raise("TypeError")
                  ELSE Return(Put(context, N("caption"),
                                  Slice(Get(metadata.d, N("captionText")), CaptionLimit)))
             ELSE Return(context)
       IN IF Raised(withCaption) THEN withCaption
          ELSE IF In(N("stats"), metadata)
               THEN IF ~IsDict(metadata) THEN Raise("TypeError")
                    ELSE IF IsDict(Get(metadata.d, N("stats")))
                         THEN Return(Put(withCaption.val, N("engagement_stats"), Get(metadata.d, N("stats"))))
                         ELSE withCaption
               ELSE withCaption

\* the loop of the 'hook_analysis' branch
RECURSIVE FirstSecondsLoop(_)
FirstSecondsLoop(items) ==
  IF items = <<>> THEN <<>>
  ELSE LET timeline_data == items[1].v
           rest == FirstSecondsLoop(Tail(items))
       IN IF IsDict(timeline_data) /\ timeline_data.d # <<>>
          THEN LET filtered == _filter_timeline_by_seconds(timeline_data.d, 5)
               IN IF filtered # <<>> THEN <<Entry(items[1].k, JDict(filtered))>> \o rest
                  ELSE rest
          ELSE rest

\* the loop of the 'creative_density' / 'engagement_triggers' branch
RECURSIVE SamplesLoop(_, _)
SamplesLoop(items, max_timeline_entries) ==
  IF items = <<>> THEN Return(<<>>)
  ELSE LET timeline_data == items[1].v
       IN IF IsDict(timeline_data) /\ timeline_data.d # <<>>
          THEN LET sampled == _sample_timeline(timeline_data.d, max_timeline_entries)
               IN IF Raised(sampled) THEN sampled
                  ELSE LET rest == SamplesLoop(Tail(items), max_timeline_entries)
                       IN IF Raised(rest) THEN rest
                          ELSE IF sampled.val # <<>>
                               THEN Return(<<Entry(items[1].k, JDict(sampled.val))>> \o rest.val)
                               ELSE rest
          ELSE SamplesLoop(Tail(items), max_timeline_entries)

TimelineContext(context, timelines, prompt_name, max_timeline_entries) ==
  IF prompt_name = "hook_analysis"
  THEN IF ~IsDict(timelines) THEN Raise("AttributeError")
       ELSE Return(Put(context, N("first_5_seconds"), JDict(FirstSecondsLoop(timelines.d))))
  ELSE IF prompt_name \in {"creative_density", "engagement_triggers"}
  THEN IF ~IsDict(timelines) THEN Raise("AttributeError")
       ELSE LET samples == SamplesLoop(timelines.d, max_timeline_entries)
            IN IF Raised(samples) THEN samples
               ELSE Return(Put(context, N("timeline_samples"), JDict(samples.val)))
  ELSE LET summary == _get_timeline_summary(timelines)
       IN IF Raised(summary) THEN summary
          ELSE Return(Put(context, N("timeline_summary"), summary.val))

ValidationBlock ==
  JDict(<<Entry(N("validated_at"), Now),
          Entry(N("data_source"), JStr(<<"ml_detections">>)),
          Entry(N("validator_version"), JStr(<<"1.0">>))>>)

\* context['_validation'] = {...}; return context
WithValidation(context) ==
  IF Raised(context) THEN context
  ELSE Return(Put(context.val, N("_validation"), ValidationBlock))

\* the timeline block and the provenance block, on the context built so far
WithTimelines(context, unified_data, prompt_name, max_timeline_entries) ==
  IF Raised(context) THEN context
  ELSE WithValidation(TimelineContext(context.val,
                                      GetOr(unified_data, N("timelines"), JDict(<<>>)),
                                      prompt_name, max_timeline_entries))

\* context = {} and context['duration']
ScalarContext(unified_data) ==
  IF HasKey(unified_data, N("duration_seconds"))
  THEN <<Entry(N("duration"), Get(unified_data, N("duration_seconds")))>>
  ELSE <<>>

\* the body after validation: scalar fields, metadata, the purpose's timelines
ContextOf(unified_data, prompt_name, max_timeline_entries) ==
  WithTimelines(IF HasKey(unified_data, N("static_metadata"))
                THEN MetadataContext(ScalarContext(unified_data),
                                     Get(unified_data, N("static_metadata")))
                ELSE Return(ScalarContext(unified_data)),
                unified_data, prompt_name, max_timeline_entries)

\* what follows is_valid, issues = self.validate_unified_analysis(unified_data)
AfterValidation(validation, strict_mode, unified_data, prompt_name, max_timeline_entries) ==
  IF Raised(validation) THEN validation
  ELSE IF ~validation.val[1] /\ strict_mode THEN Raise("ValueError")
  ELSE ContextOf(unified_data, prompt_name, max_timeline_entries)

extract_safe_context_data(strict_mode, unified_data, prompt_name, max_timeline_entries) ==
  AfterValidation(validate_unified_analysis(unified_data), strict_mode, unified_data,
                  prompt_name, max_timeline_entries)

(* create_safe_context *)

VideoIdOf(unified_data) ==
  IF HasKey(unified_data, N("video_id")) THEN Get(unified_data, N("video_id"))
  ELSE JStr(<<"unknown">>)

\* str(e) is the message of the exception, named here by its type
FallbackContext(unified_data, e) ==
  <<Entry(N("error"), JStr(<<"Failed to extract ML data">>)),
    Entry(N("video_id"), VideoIdOf(unified_data)),
    Entry(N("_validation"), JDict(<<Entry(N("validated_at"), Now),
                                 Entry(N("error"), JStr(<<e>>))>>))>>

\* return context, unless validate_prompt_context raised
KeepContext(context, checked) == IF Raised(checked) THEN checked ELSE context

\* validate_prompt_context on the extracted context
Checked(context, prompt_name) ==
  IF Raised(context) THEN context
  ELSE KeepContext(context, validate_prompt_context(prompt_name, context.val))

\* the try block: the extracted context, once validate_prompt_context has run
TryContext(unified_data, prompt_name, strict) ==
  Checked(extract_safe_context_data(strict, unified_data, prompt_name,
                                    DefaultMaxTimelineEntries), prompt_name)

\* the except block on what the try block gave
Handler(tried, unified_data, strict) ==
  IF ~Raised(tried) THEN tried
  ELSE IF strict THEN tried
  ELSE Return(FallbackContext(unified_data, tried.exc))

\* the handler without the re-raise of strict mode
create_safe_context_Swallow(unified_data, prompt_name, strict) ==
  Handler(TryContext(unified_data, prompt_name, strict), unified_data, FALSE)

create_safe_context(unified_data, prompt_name, strict) ==
  Handler(TryContext(unified_data, prompt_name, strict), unified_data, strict)

----------------------------------------------------------------------------
(* Specification of the validator: a unified analysis document, a prompt   *)
(* name, the validator's mode and the bound of one extraction call         *)

MaxDocTimeline == 3  \* longest timeline inside a document
MaxMissing == 1      \* most expected timelines a document's 'timelines' lacks

D_objects == JDict(<<Entry(N("objects"), JDict(<<Entry(N("person"), JNum(1))>>)),
                     Entry(N("total_objects"), JNum(1))>>)
D_objects_list == JDict(<<Entry(N("objects"), JList(<<>>))>>)

ObjectEntries == {Entry(K_0_1s, D_objects), Entry(K_abc_def, D_objects),
                  Entry(K_5_6s, D_objects_list)}

ObjectTimelineValues ==
  {JList(<<>>)} \cup {JDict(d) : d \in DictsOver(ObjectEntries, MaxDocTimeline)}

\* the subsequence of names whose element is in S
RECURSIVE SelectNames(_, _)
SelectNames(names, S) ==
  IF names = <<>> THEN <<>>
  ELSE (IF names[1] \in S THEN <<names[1]>> ELSE <<>>) \o SelectNames(Tail(names), S)

ExpectedNames == {expected_timelines[i] : i \in 1..Len(expected_timelines)}

TimelinesMappings ==
  {JDict([i \in 1..Len(SelectNames(expected_timelines, S)) |->
            LET name == SelectNames(expected_timelines, S)[i]
            IN Entry(name, IF name = N("objectTimeline") THEN objs ELSE JDict(<<>>))]) :
     S \in {T \in SUBSET ExpectedNames : Cardinality(ExpectedNames \ T) <= MaxMissing},
     objs \in ObjectTimelineValues}

Absent == [t |-> "absent"]

VideoIdValues == {Absent, JStr(<<"v", "1">>)}
DurationValues == {Absent, JNum(10)}
MetadataValues ==
  {Absent, JNone, JList(<<>>), JDict(<<>>),
   JDict(<<Entry(N("captionText"), JStr(<<"H", "i">>)), Entry(N("stats"), JDict(<<Entry(N("views"), JNum(5))>>))>>),
   JDict(<<Entry(N("captionText"), JNone), Entry(N("stats"), JList(<<>>))>>)}
TimelinesValues == {Absent, JNone, JList(<<>>)} \cup TimelinesMappings

Field(name, v) == IF v = Absent THEN <<>> ELSE <<Entry(name, v)>>

Documents ==
  {Field(N("video_id"), vid) \o Field(N("duration_seconds"), dur)
     \o Field(N("static_metadata"), md) \o Field(N("timelines"), tls) :
     vid \in VideoIdValues, dur \in DurationValues,
     md \in MetadataValues, tls \in TimelinesValues}

PromptNames == {"hook_analysis", "creative_density", "engagement_triggers", "scene_pacing"}

Init ==
  /\ input \in [doc : Documents, prompt_name : PromptNames, strict : BOOLEAN,
                max_timeline_entries : 1..MaxEntries]
  /\ op = "input"
  /\ out = Return(<<>>)

ValidateUnifiedAnalysis ==
  /\ op = "input"
  /\ op' = "validate_unified_analysis"
  /\ out' = validate_unified_analysis(input.doc)
  /\ UNCHANGED input

ExtractSafeContextData ==
  /\ op = "input"
  /\ op' = "extract_safe_context_data"
  /\ out' = extract_safe_context_data(input.strict, input.doc, input.prompt_name,
                                      input.max_timeline_entries)
  /\ UNCHANGED input

CreateSafeContext ==
  /\ op = "input"
  /\ op' = "create_safe_context"
  /\ out' = create_safe_context(input.doc, input.prompt_name, input.strict)
  /\ UNCHANGED input

Next == ValidateUnifiedAnalysis \/ ExtractSafeContextData \/ CreateSafeContext

Spec == Init /\ [][Next]_vars

\* C2: in lenient mode extract_safe_context_data never raises and the
\* context it returns contains the provenance block '_validation'.
C2_LenientNeverRaises ==
  (op = "extract_safe_context_data" /\ ~input.strict)
    => (~Raised(out) /\ HasKey(out.val, N("_validation")))

\* what the try block of create_safe_context does for the call in input
TryBlock == TryContext(input.doc, input.prompt_name, input.strict)

\* C4: when extraction or context validation raises, create_safe_context
\* with strict=False returns a context that carries an 'error' field and the
\* document's 'video_id' ('unknown' when the document has none) and does not
\* propagate the exception; with strict=True it re-raises that exception.
C4_ExtractionFailure ==
  (op = "create_safe_context" /\ Raised(TryBlock)) =>
    IF input.strict
    THEN Raised(out) /\ out.exc = TryBlock.exc
    ELSE /\ ~Raised(out)
         /\ HasKey(out.val, N("error"))
         /\ HasKey(out.val, N("video_id"))
         /\ Get(out.val, N("video_id")) =
              (IF HasKey(input.doc, N("video_id")) THEN Get(input.doc, N("video_id"))
               ELSE JStr(<<"unknown">>))

\* a lenient call whose extraction raised and that returned the fallback
\* context with the document's own video_id
C4_Witness ==
  /\ op = "create_safe_context"
  /\ ~input.strict
  /\ Raised(TryBlock)
  /\ HasKey(input.doc, N("video_id"))
  /\ ~Raised(out)
  /\ HasKey(out.val, N("error"))
  /\ Get(out.val, N("video_id")) = Get(input.doc, N("video_id"))

\* C5: whenever validate_unified_analysis reports at least one issue,
\* extract_safe_context_data raises in strict mode and returns a context
\* (with whatever scalar fields exist) in lenient mode.
C5_StrictVersusLenient ==
  (/\ op = "extract_safe_context_data"
   /\ ~Raised(validate_unified_analysis(input.doc))
   /\ validate_unified_analysis(input.doc).val[2] # <<>>) =>
    IF input.strict
    THEN Raised(out)
    ELSE /\ ~Raised(out)
         /\ HasKey(input.doc, N("duration_seconds")) => HasKey(out.val, N("duration"))

\* the structural defects of a document, counted as the specification lists them
MissingRequired(doc) ==
  Cardinality({i \in 1..Len(required_fields) : ~HasKey(doc, required_fields[i])})
TimelineKindDefects(doc) ==
  IF HasKey(doc, N("timelines")) /\ IsDict(Get(doc, N("timelines")))
  THEN Cardinality({n \in ExpectedNames :
                      \/ ~HasKey(Get(doc, N("timelines")).d, n)
                      \/ ~IsDict(Get(Get(doc, N("timelines")).d, n))})
  ELSE 0

\* C6: validate_unified_analysis returns for every document mapping, also
\* one whose 'timelines' or 'static_metadata' is not a mapping; issues holds
\* exactly one string per missing required field, per missing expected
\* timeline kind and per expected timeline kind that is not a mapping, and
\* ok is true iff issues is empty.
C6_CollectsEveryDefect ==
  op = "validate_unified_analysis" =>
    /\ ~Raised(out)
    /\ (HasKey(input.doc, N("timelines")) => IsDict(Get(input.doc, N("timelines"))))
         => Len(out.val[2]) = MissingRequired(input.doc) + TimelineKindDefects(input.doc)
    /\ out.val[1] <=> (out.val[2] = <<>>)

----------------------------------------------------------------------------
(* MLDataIntegrityTester._check_data_consistency *)

\* numbers: integers, and floats with one decimal digit counted in tenths
JFloat(tenths) == [t |-> "float", tenths |-> tenths]
IsNumber(v) == v.t \in {"num", "float"}
Tenths(v) == IF v.t = "num" THEN 10 * v.n ELSE v.tenths


\* bool(v)
Truthy(v) ==
  CASE v.t = "none" -> FALSE
    [] v.t = "bool" -> v.b
    [] v.t = "num" -> v.n # 0
    [] v.t = "float" -> v.tenths # 0
    [] v.t = "str" -> v.s # <<>>
    [] v.t = "list" -> v.items # <<>>
    [] v.t = "dict" -> v.d # <<>>

\* end_time >= duration
BeyondDuration_Inclusive(end_time, duration) == 10 * end_time >= Tenths(duration)

\* end_time > duration
BeyondDuration(end_time, duration) == 10 * end_time > Tenths(duration)

BeyondIssue(timeline_name, timestamp, duration) ==
  <<"has entry beyond video duration", timeline_name, timestamp, duration>>

\* the body of the loop over timeline_data.keys()
KeyBeyondIssues(timeline_name, timestamp, duration) ==
  IF HasChar(timestamp, "-") /\ EndsWith(timestamp, "s")
  THEN LET end_text == RStrip(Split(timestamp, "-")[2], {"s"})
       IN IF PyIntOk(end_text) /\ BeyondDuration(PyInt(end_text), duration)
          THEN <<BeyondIssue(timeline_name, timestamp, duration)>>
          ELSE <<>>
  ELSE <<>>

RECURSIVE TimelineBeyondIssues(_, _, _)
TimelineBeyondIssues(timeline_name, timeline_data, duration) ==
  IF timeline_data = <<>> THEN <<>>
  ELSE KeyBeyondIssues(timeline_name, timeline_data[1].k, duration)
       \o TimelineBeyondIssues(timeline_name, Tail(timeline_data), duration)

RECURSIVE DurationIssues(_, _)
DurationIssues(items, duration) ==
  IF items = <<>> THEN <<>>
  ELSE (IF IsDict(items[1].v)
        THEN TimelineBeyondIssues(items[1].k, items[1].v.d, duration)
        ELSE <<>>)
       \o DurationIssues(Tail(items), duration)

\* int(duration * fps) if duration > 0 and fps > 0 else 0
ExpectedFrames(duration, fps) ==
  IF Tenths(duration) > 0 /\ Tenths(fps) > 0
  THEN (Tenths(duration) * Tenths(fps)) \div 100
  ELSE 0

\* abs(total_frames - expected_frames) > expected_frames * 0.1
OutOfTolerance(total_frames, expected_frames) ==
  LET diff == Tenths(total_frames) - 10 * expected_frames
  IN (IF diff >= 0 THEN diff ELSE 0 - diff) > expected_frames

FrameIssue(total_frames, expected_frames) ==
  <<"Frame count mismatch", total_frames, expected_frames>>

FrameIssues(data, duration) ==
  LET total_frames == GetOr(data, N("total_frames"), JNum(0))
      fps == GetOr(data, N("fps"), JNum(1))
  IN IF Tenths(duration) > 0 /\ ~IsNumber(fps) THEN Raise("TypeError")
     ELSE IF ~IsNumber(total_frames) THEN Raise("TypeError")
     ELSE LET expected_frames == IF Tenths(duration) > 0 THEN ExpectedFrames(duration, fps)
                                 ELSE 0
          IN IF Tenths(total_frames) > 0 /\ expected_frames > 0
                /\ OutOfTolerance(total_frames, expected_frames)
             THEN Return(<<FrameIssue(total_frames, expected_frames)>>)
             ELSE Return(<<>>)

\* metadata_summary.get(claim) and not timelines.get(timeline_name)
SummaryIssue(timelines, metadata_summary, claim, timeline_name, issue) ==
  IF Truthy(GetOr(metadata_summary.d, claim, JNone))
  THEN IF ~IsDict(timelines) THEN Raise("AttributeError")
       ELSE IF ~Truthy(GetOr(timelines.d, timeline_name, JNone))
            THEN Return(<<issue>>) ELSE Return(<<>>)
  ELSE Return(<<>>)

SummaryIssues(data) ==
  LET timelines == GetOr(data, N("timelines"), JDict(<<>>))
      metadata_summary == GetOr(data, N("metadata_summary"), JDict(<<>>))
  IN IF ~IsDict(metadata_summary) THEN Raise("AttributeError")
     ELSE LET objects == SummaryIssue(timelines, metadata_summary, N("objects"),
                           N("objectTimeline"),
                           <<"Objects mentioned in summary but objectTimeline is empty">>)
              speech == SummaryIssue(timelines, metadata_summary, N("speech"),
                           N("speechTimeline"),
                           <<"Speech mentioned in summary but speechTimeline is empty">>)
          IN IF Raised(objects) THEN objects
             ELSE IF Raised(speech) THEN speech
             ELSE Return(objects.val \o speech.val)

_check_data_consistency(data) ==
  LET duration == GetOr(data, N("duration_seconds"), JNum(0))
  IN IF ~IsNumber(duration) THEN Raise("TypeError")
     ELSE LET timelines == GetOr(data, N("timelines"), JDict(<<>>))
          IN IF Tenths(duration) > 0 /\ ~IsDict(timelines) THEN Raise("AttributeError")
             ELSE LET durationIssues == IF Tenths(duration) > 0
                                        THEN DurationIssues(timelines.d, duration) ELSE <<>>
                      frameIssues == FrameIssues(data, duration)
                      summaryIssues == SummaryIssues(data)
                  IN IF Raised(frameIssues) THEN frameIssues
                     ELSE IF Raised(summaryIssues) THEN summaryIssues
                     ELSE Return(durationIssues \o frameIssues.val \o summaryIssues.val)

----------------------------------------------------------------------------
(* Specification of the consistency check: a document with a duration,     *)
(* frame counts, two timelines and a summary                               *)

MaxConsistencyTimeline == 2   \* longest timeline in a checked document

K_15_16ss == <<"1", "5", "-", "1", "6", "s", "s">>

ConsistencyKeys == {K_9_10s, K_10_11s, K_15_16s, K_3_4, K_abc_def, K_15_16ss}
ConsistencyDurations == {Absent, JNum(0), JNum(10), JFloat(105)}
ConsistencyFrames == {Absent, JNum(0), JNum(11), JNum(12), JNum(300)}
ConsistencyFps == {Absent, JNum(0), JNum(1), JNum(30)}
ConsistencySummaries ==
  {Absent, JDict(<<Entry(N("objects"), JList(<<JStr(<<"person">>)>>)),
                   Entry(N("speech"), JStr(<<"H", "i">>))>>)}
ConsistencyTimelines ==
  {Absent, JList(<<>>)}
  \cup {JDict(<<Entry(N("objectTimeline"), JDict(d))>> \o Field(N("speechTimeline"), sp)) :
          d \in DictsUpTo(ConsistencyKeys, {D_objects}, MaxConsistencyTimeline),
          sp \in {Absent, JStr(<<"x">>), JDict(<<Entry(K_15_16s, JDict(<<>>))>>)}}

ConsistencyDocuments ==
  {Field(N("duration_seconds"), dur) \o Field(N("total_frames"), tf) \o Field(N("fps"), fps)
     \o Field(N("timelines"), tls) \o Field(N("metadata_summary"), ms) :
     dur \in ConsistencyDurations, tf \in ConsistencyFrames, fps \in ConsistencyFps,
     tls \in ConsistencyTimelines, ms \in ConsistencySummaries}

InitConsistency ==
  /\ input \in [doc : ConsistencyDocuments]
  /\ op = "input"
  /\ out = Return(<<>>)

CheckDataConsistency ==
  /\ op = "input"
  /\ op' = "_check_data_consistency"
  /\ out' = _check_data_consistency(input.doc)
  /\ UNCHANGED input

NextConsistency == CheckDataConsistency

SpecConsistency == InitConsistency /\ [][NextConsistency]_vars

MaxSecond == 16      \* largest interval bound of a well-formed key

\* the key "<a>-<b>s"
IntervalKey(a, b) == IntChars(a) \o <<"-">> \o IntChars(b) \o <<"s">>
IntervalKeys == [a \in 0..MaxSecond, b \in 0..MaxSecond |-> IntervalKey(a, b)]

DocDuration == Get(input.doc, N("duration_seconds"))
DocTimelines == Get(input.doc, N("timelines")).d

\* C8: with duration_seconds = D > 0 the check reports exactly one 'beyond
\* video duration' issue, naming timeline and key, for each (timeline, key)
\* pair whose interval end exceeds D, and none for a pair whose end is <= D.
C8_BeyondDuration ==
  (/\ op = "_check_data_consistency"
   /\ ~Raised(out)
   /\ HasKey(input.doc, N("duration_seconds")) /\ Tenths(DocDuration) > 0
   /\ HasKey(input.doc, N("timelines"))) =>
    \A i \in 1..Len(DocTimelines) :
      IsDict(DocTimelines[i].v) =>
        \A k \in KeysOf(DocTimelines[i].v.d) :
          \A a, b \in 0..MaxSecond :
            k = IntervalKeys[a, b] =>
              CountOf(out.val, BeyondIssue(DocTimelines[i].k, k, DocDuration))
                = IF 10 * b > Tenths(DocDuration) THEN 1 ELSE 0

\* D = 10 and the single entry '15-16s': exactly one such issue
C8_Witness ==
  /\ op = "_check_data_consistency"
  /\ ~Raised(out)
  /\ HasKey(input.doc, N("duration_seconds")) /\ DocDuration = JNum(10)
  /\ HasKey(input.doc, N("timelines"))
  /\ DocTimelines = <<Entry(N("objectTimeline"), JDict(<<Entry(K_15_16s, D_objects)>>))>>
  /\ Cardinality({j \in 1..Len(out.val) : out.val[j][1] = "has entry beyond video duration"}) = 1
  /\ CountOf(out.val, BeyondIssue(N("objectTimeline"), K_15_16s, JNum(10))) = 1

\* C9: a frame-count mismatch is flagged only when total_frames and fps are
\* both present and positive, and then exactly when total_frames differs
\* from duration_seconds * fps by more than 10%; a document with
\* total_frames but no fps is never flagged.
C9_FrameCount ==
  (op = "_check_data_consistency" /\ ~Raised(out)) =>
    LET flagged == \E j \in 1..Len(out.val) : out.val[j][1] = "Frame count mismatch"
        tf == Get(input.doc, N("total_frames"))
        fps == Get(input.doc, N("fps"))
        product == (Tenths(GetOr(input.doc, N("duration_seconds"), JNum(0))) * Tenths(fps))
        diff == 100 * tf.n - product
    IN IF HasKey(input.doc, N("total_frames")) /\ HasKey(input.doc, N("fps"))
          /\ tf.n > 0 /\ fps.n > 0
       THEN flagged <=> (10 * (IF diff >= 0 THEN diff ELSE 0 - diff) > product)
       ELSE ~flagged

----------------------------------------------------------------------------
(* MLDataIntegrityTester._check_suspicious_patterns *)

tester_suspicious_patterns ==
  <<P_link_in_bio, P_swipe_up, P_example_com, P_lorem_ipsum, P_test_test_test,
    P_placeholder, P_todo, P_fixme, P_insert_here, P_coming_soon>>

\* the loop over data['timelines'].items() for one pattern
RECURSIVE FoundInTimelines(_, _)
FoundInTimelines(pattern, items) ==
  IF items = <<>> THEN <<>>
  ELSE (IF Contains(Lower(Dumps(items[1].v)), pattern)
        THEN <<<<pattern, "found in", items[1].k>>>> ELSE <<>>)
       \o FoundInTimelines(pattern, Tail(items))

RECURSIVE FoundPatterns(_, _, _)
FoundPatterns(data, data_str, patterns) ==
  IF patterns = <<>> THEN Return(<<>>)
  ELSE LET rest == FoundPatterns(data, data_str, Tail(patterns))
       IN IF Contains(data_str, patterns[1])
          THEN IF HasKey(data, N("timelines"))
               THEN IF ~IsDict(Get(data, N("timelines"))) THEN Raise("AttributeError")
                    ELSE IF Raised(rest) THEN rest
                    ELSE Return(FoundInTimelines(patterns[1], Get(data, N("timelines")).d)
                                \o rest.val)
               ELSE IF Raised(rest) THEN rest
                    ELSE Return(<<<<patterns[1], "found in data">>>> \o rest.val)
          ELSE rest

_check_suspicious_patterns(data) ==
  FoundPatterns(data, Lower(Dumps(JDict(data))), tester_suspicious_patterns)

----------------------------------------------------------------------------
(* Specification of the fabrication scan: documents whose caption, speech  *)
(* text and overlay text list hold text leaves                             *)

L_swipe_up == <<"S", "w", "i", "p", "e", " ", "u", "p", " ", "f", "o", "r", " ", "m", "o", "r", "e", "!">>
L_tap_here == <<"t", "a", "p", " ", "h", "e", "r", "e">>
L_ok == <<"o", "k">>
L_link_in_bio == <<"L", "I", "N", "K", " ", "I", "N", " ", "B", "I", "O">>
L_coming_soon == <<"C", "o", "m", "i", "n", "g", " ", "s", "o", "o", "n">>

ScanLeaves == {L_swipe_up, L_tap_here, L_ok, L_link_in_bio, L_coming_soon}

ScanTimelines(overlay, speech) ==
  JDict(<<Entry(N("objectTimeline"), JDict(<<>>)),
          Entry(N("textOverlayTimeline"),
                JDict(<<Entry(K_0_1s, JDict(<<Entry(N("texts"),
                   JList(<<JDict(<<Entry(N("text"), JStr(overlay))>>)>>))>>))>>)),
          Entry(N("speechTimeline"),
                JDict(<<Entry(K_1_2s, JDict(<<Entry(N("text"), JStr(speech))>>))>>)),
          Entry(N("gestureTimeline"), JDict(<<>>)),
          Entry(N("expressionTimeline"), JDict(<<>>)),
          Entry(N("stickerTimeline"), JDict(<<>>))>>)

ScanDocuments ==
  {<<Entry(N("video_id"), JStr(<<"v", "1">>)), Entry(N("duration_seconds"), JNum(10)),
     Entry(N("static_metadata"), JDict(<<Entry(N("captionText"), JStr(caption))>>))>>
     \o Field(N("timelines"), tls) :
     caption \in ScanLeaves,
     tls \in {Absent} \cup {ScanTimelines(overlay, speech) :
                              overlay \in ScanLeaves, speech \in ScanLeaves}}

InitScan ==
  /\ input \in [doc : ScanDocuments, prompt_name : PromptNames]
  /\ op = "input"
  /\ out = Return(<<>>)

CheckSuspiciousPatterns ==
  /\ op = "input"
  /\ op' = "_check_suspicious_patterns"
  /\ out' = _check_suspicious_patterns(input.doc)
  /\ UNCHANGED input

\* the context scanned is the one a lenient extraction builds from the document
ScannedContext ==
  extract_safe_context_data(FALSE, input.doc, input.prompt_name, DefaultMaxTimelineEntries).val

ValidatePromptContext ==
  /\ op = "input"
  /\ op' = "validate_prompt_context"
  /\ out' = validate_prompt_context(input.prompt_name, ScannedContext)
  /\ UNCHANGED input

NextScan == CheckSuspiciousPatterns \/ ValidatePromptContext

SpecScan == InitScan /\ [][NextScan]_vars

\* the string leaves of a JSON value
RECURSIVE StringLeaves(_)
RECURSIVE LeavesOfSeq(_)
StringLeaves(v) ==
  CASE v.t = "str" -> {v.s}
    [] v.t = "list" -> LeavesOfSeq(v.items)
    [] v.t = "dict" -> LeavesOfSeq([i \in 1..Len(v.d) |-> v.d[i].v])
    [] OTHER -> {}
LeavesOfSeq(vs) ==
  IF vs = <<>> THEN {} ELSE StringLeaves(vs[1]) \cup LeavesOfSeq(Tail(vs))

\* the suspicious substrings that both scanners list
canonical_patterns == {P_link_in_bio, P_swipe_up, P_example_com, P_lorem_ipsum}

\* the warnings of a scan that cite pattern p
Citing(p) ==
  IF op = "validate_prompt_context"
  THEN {j \in 1..Len(out.val[2]) : Len(out.val[2][j]) = 2 /\ out.val[2][j][2] = p}
  ELSE {j \in 1..Len(out.val) : out.val[j][1] = p}

Scanned ==
  IF op = "_check_suspicious_patterns" THEN JDict(input.doc) ELSE JDict(ScannedContext)

\* C10: whenever a string leaf of the scanned document or context contains a
\* canonical suspicious substring (case-insensitive), wherever the leaf
\* sits, the scan produces at least one warning citing that substring.
C10_FabricationDetection ==
  op \in {"_check_suspicious_patterns", "validate_prompt_context"} =>
    /\ ~Raised(out)
    /\ \A p \in canonical_patterns :
         (\E leaf \in StringLeaves(Scanned) : Contains(Lower(leaf), p))
           => Citing(p) # {}

----------------------------------------------------------------------------
(* parse_timestamp_to_seconds: the start second, or None *)

NoSecond == [none |-> TRUE]
parse_timestamp_to_seconds(timestamp) ==
  LET start == Split(timestamp, "-")[1]
  IN IF PyIntOk(start) THEN [none |-> FALSE, val |-> PyInt(start)] ELSE NoSecond

----------------------------------------------------------------------------
(* compute_creative_density_analysis: the per-second counts and the fields *)
(* of the result that are sums over them                                   *)

ElementTypes == <<"text", "sticker", "gesture", "expression", "object">>

DensityTimelineName(timeline_type) ==
  CASE timeline_type = "text" -> N("textOverlayTimeline")
    [] timeline_type = "sticker" -> N("stickerTimeline")
    [] timeline_type = "gesture" -> N("gestureTimeline")
    [] timeline_type = "expression" -> N("expressionTimeline")
    [] timeline_type = "object" -> N("objectTimeline")

ListField(timeline_type) ==
  CASE timeline_type = "text" -> N("texts")
    [] timeline_type = "sticker" -> N("stickers")
    [] timeline_type = "gesture" -> N("gestures")

\* the count of one entry; a raise is swallowed by the loop's bare except
ElementCount(timeline_type, data) ==
  IF timeline_type \in {"text", "sticker", "gesture"}
  THEN IF ~InOk(data) THEN Raise("TypeError")
       ELSE IF In(ListField(timeline_type), data)
            THEN IF ~IsDict(data) THEN Raise("AttributeError")
                 ELSE IF ~PyLenOk(Get(data.d, ListField(timeline_type))) THEN Raise("TypeError")
                 ELSE Return(PyLen(Get(data.d, ListField(timeline_type))))
            ELSE Return(1)
  ELSE IF ~IsDict(data) THEN Raise("AttributeError")
  ELSE IF timeline_type = "object"
       THEN LET total == GetOr(data.d, N("total_objects"), JNum(1))
            IN IF total.t = "num" THEN Return(total.n) ELSE Raise("TypeError")
       ELSE Return(IF Truthy(GetOr(data.d, N("expression"), JNone)) THEN 1 ELSE 0)

\* counts is a function: element type -> sequence of per-second counts
RECURSIVE CountEntries(_, _, _, _)
CountEntries(counts, timeline_type, timeline_data, seconds) ==
  IF timeline_data = <<>> THEN counts
  ELSE LET start == Split(timeline_data[1].k, "-")[1]
           count == ElementCount(timeline_type, timeline_data[1].v)
           counted ==
             IF PyIntOk(start) /\ 0 <= PyInt(start) /\ PyInt(start) < seconds /\ ~Raised(count)
             THEN [counts EXCEPT ![timeline_type][PyInt(start) + 1] = @ + count.val]
             ELSE counts
       IN CountEntries(counted, timeline_type, Tail(timeline_data), seconds)

RECURSIVE CountTimelines(_, _, _, _)
CountTimelines(counts, types, timelines, seconds) ==
  IF types = <<>> THEN counts
  ELSE LET timeline_data == GetOr(timelines, DensityTimelineName(types[1]), JDict(<<>>))
       IN CountTimelines(CountEntries(counts, types[1], timeline_data.d, seconds),
                         Tail(types), timelines, seconds)

RECURSIVE SumSeq(_)
SumSeq(xs) == IF xs = <<>> THEN 0 ELSE xs[1] + SumSeq(Tail(xs))

MaxPeakMoments == 10
PeakDensityLimit == 5

\* density_with_index.sort(reverse=True): (density, second) pairs, greatest
\* density first and, on equal density, greatest second first; the sort key
\* orders the pairs as the tuples compare (second < Len(density_per_second))
DensityWithIndex(density_per_second) ==
  LET n == Len(density_per_second)
      sorted == StableSort([i \in 1..n |->
                   [key |-> 0 - (density_per_second[i] * n + (i - 1)),
                    item |-> [second |-> i - 1, total_elements |-> density_per_second[i]]]])
  IN [i \in 1..n |-> sorted[i].item]

\* d > mean(density_per_second), on integers
AboveMean(d, density_per_second) ==
  d * Len(density_per_second) > SumSeq(density_per_second)

\* the peaks as selected, greatest first: the loop over density_with_index[:num_peaks]
SelectedPeaks(density_per_second) ==
  LET density_with_index == DensityWithIndex(density_per_second)
      num_peaks == Min(MaxPeakMoments,
                       Cardinality({i \in 1..Len(density_per_second) :
                                      AboveMean(density_per_second[i], density_per_second)}))
  IN SelectSeq(SubSeq(density_with_index, 1, num_peaks), LAMBDA p : p.total_elements > 0)

\* the peaks left in the order of selection
PeakMoments_ByMagnitude(density_per_second) == SelectedPeaks(density_per_second)

\* peak_moments.sort(key=lambda x: x['second'])
PeakMoments(density_per_second) ==
  LET selected == SelectedPeaks(density_per_second)
      sorted == StableSort([i \in 1..Len(selected) |->
                              [key |-> selected[i].second, item |-> selected[i]]])
  IN [i \in 1..Len(sorted) |-> sorted[i].item]

\* p['total_elements'] > avg_density * 1.5, on integers
Significant(total_elements, density_per_second) ==
  2 * total_elements * Len(density_per_second) > 3 * SumSeq(density_per_second)

SignificantPeaks(peak_moments, density_per_second) ==
  SelectSeq(peak_moments, LAMBDA p : Significant(p.total_elements, density_per_second))

\* some peak and the next one in time lie at least 8 seconds apart
DualPeakStructure(significant_peaks) ==
  /\ Len(significant_peaks) >= 2
  /\ \E i \in 1..(Len(significant_peaks) - 1) :
       significant_peaks[i + 1].second - significant_peaks[i].second >= 8

compute_creative_density_analysis(timelines, duration) ==
  LET seconds == duration + 1
      types == {ElementTypes[i] : i \in 1..Len(ElementTypes)}
      element_types_per_second ==
        CountTimelines([ty \in types |-> [i \in 1..seconds |-> 0]], ElementTypes,
                       timelines, seconds)
      density_per_second ==
        [i \in 1..seconds |->
           SumSeq([j \in 1..Len(ElementTypes) |-> element_types_per_second[ElementTypes[j]][i]])]
      peak_moments == PeakMoments(density_per_second)
      significant_peaks == SignificantPeaks(peak_moments, density_per_second)
  IN [density_per_second |-> density_per_second,
      total_creative_elements |-> SumSeq(density_per_second),
      element_distribution |-> [ty \in types |-> SumSeq(element_types_per_second[ty])],
      empty_seconds |-> Cardinality({i \in 1..seconds : density_per_second[i] = 0}),
      peak_moments |-> peak_moments,
      peak_density_moments |-> SubSeq(peak_moments, 1, Min(PeakDensityLimit, Len(peak_moments))),
      dual_peak_structure |-> DualPeakStructure(significant_peaks),
      multi_peak |-> Len(significant_peaks) >= 3,
      duration_seconds |-> duration,
      scene_changes |-> Len(GetOr(timelines, N("sceneChangeTimeline"), JDict(<<>>)).d)]

----------------------------------------------------------------------------
(* compute_emotional_metrics: the sampled emotion and valence sequences    *)
(* and the emotion-gesture alignment counts                                *)

SampleInterval == 5

EMOTION_LABELS == {"joy", "sadness", "anger", "fear", "surprise", "disgust", "neutral"}

\* EMOTION_VALENCE.get(label, 0.0), in tenths
Valence(label) ==
  CASE label \in {"joy", "happy"} -> 8
    [] label = "excited" -> 9
    [] label = "neutral" -> 0
    [] label = "calm" -> 1
    [] label \in {"sadness", "sad"} -> -6
    [] label \in {"anger", "angry"} -> -8
    [] label = "fear" -> -7
    [] label = "worried" -> -5
    [] label \in {"surprise", "surprised"} -> 3
    [] label = "disgust" -> -9
    [] label \in {"contemplative", "thoughtful"} -> -1
    [] OTHER -> 0

Standardized(dominant) ==
  IF dominant \in {"happy", "excited"} THEN "joy"
  ELSE IF dominant = "sad" THEN "sadness"
  ELSE IF dominant \in {"contemplative", "thoughtful"} THEN "neutral"
  ELSE IF dominant \in EMOTION_LABELS THEN dominant ELSE "neutral"

\* the expression labels (one-token strings) of the entries in window [i, i + interval)
RECURSIVE EmotionsInWindow(_, _, _)
EmotionsInWindow(expression_timeline, i, sample_interval) ==
  IF expression_timeline = <<>> THEN <<>>
  ELSE LET ts_second == parse_timestamp_to_seconds(expression_timeline[1].k)
           data == expression_timeline[1].v
       IN (IF ~ts_second.none /\ i <= ts_second.val /\ ts_second.val < i + sample_interval
              /\ HasKey(data.d, N("expression"))
           THEN <<Get(data.d, N("expression")).s[1]>> ELSE <<>>)
          \o EmotionsInWindow(Tail(expression_timeline), i, sample_interval)

\* Counter(xs).most_common(1)[0][0]: the most frequent, the earliest on a tie
MostCommon(xs) ==
  LET n(x) == Cardinality({j \in 1..Len(xs) : xs[j] = x})
      best == CHOOSE j \in 1..Len(xs) :
                /\ \A k \in 1..Len(xs) : n(xs[k]) <= n(xs[j])
                /\ \A k \in 1..(j - 1) : n(xs[k]) < n(xs[j])
  IN xs[best]

\* the windows start at 0, 5, 10, ... below seconds
WindowStarts(seconds, sample_interval) ==
  [w \in 1..((seconds + sample_interval - 1) \div sample_interval) |-> (w - 1) * sample_interval]

\* the gestures of an entry as a set of labels
GestureLabels(entry) ==
  LET gestures == GetOr(entry.d, N("gestures"), JList(<<>>))
  IN {gestures.items[j].s[1] : j \in 1..Len(gestures.items)}

Aligned(emotion, gestures) ==
  \/ emotion \in {"happy", "excited"} /\ gestures \cap {"thumbs_up", "victory", "pointing"} # {}
  \/ emotion \in {"sad", "thoughtful"} /\ gestures \cap {"closed_fist", "open_palm"} # {}
  \/ emotion = "surprised" /\ gestures \cap {"pointing", "open_palm"} # {}

IntensityThreshold == 6

\* mean(xs) - mean(ys) > tenths / 10 for non-empty sequences of tenths
MeanExceeds(xs, ys, tenths) ==
  SumSeq(xs) * Len(ys) - SumSeq(ys) * Len(xs) > tenths * Len(xs) * Len(ys)

\* emotion_valence[:len // 3]
FirstThird(emotion_valence) ==
  SubSeq(emotion_valence, 1, Len(emotion_valence) \div 3)
\* emotion_valence[-len // 3:]: -len // 3 is the floor of -len / 3
LastThird(emotion_valence) ==
  SubSeq(emotion_valence, Len(emotion_valence) - ((Len(emotion_valence) + 2) \div 3) + 1,
         Len(emotion_valence))
\* emotion_valence[len // 3 : -len // 3]
MiddleThird(emotion_valence) ==
  SubSeq(emotion_valence, (Len(emotion_valence) \div 3) + 1,
         Len(emotion_valence) - ((Len(emotion_valence) + 2) \div 3))

emotional_trajectory(emotion_valence) ==
  IF Len(emotion_valence) >= 3
  THEN IF MeanExceeds(LastThird(emotion_valence), FirstThird(emotion_valence), 3)
       THEN "ascending"
       ELSE IF MeanExceeds(FirstThird(emotion_valence), LastThird(emotion_valence), 3)
       THEN "descending"
       ELSE IF /\ MeanExceeds(FirstThird(emotion_valence), MiddleThird(emotion_valence), 2)
               /\ MeanExceeds(LastThird(emotion_valence), MiddleThird(emotion_valence), 2)
       THEN "u-shaped"
       ELSE "flat"
  ELSE "flat"

\* abs(valence)
Intensity(valence) == IF valence < 0 THEN -valence ELSE valence

\* emotional_peaks[:5]
TopPeaks(emotional_peaks) == SubSeq(emotional_peaks, 1, Min(Len(emotional_peaks), 5))

\* emotional_peaks after the sort by intensity, largest first; the sort is
\* stable, so windows of equal intensity keep their order in time
RECURSIVE SortedPeaks(_, _)
SortedPeaks(windows, emotion_valence) ==
  IF windows = {} THEN <<>>
  ELSE LET first == CHOOSE w \in windows : \A u \in windows :
                      \/ Intensity(emotion_valence[w]) > Intensity(emotion_valence[u])
                      \/ Intensity(emotion_valence[w]) = Intensity(emotion_valence[u]) /\ w <= u
       IN <<first>> \o SortedPeaks(windows \ {first}, emotion_valence)

\* the spacing, in seconds, between each peak of the list and the one before
PeakSpacings(emotional_peaks, starts) ==
  [i \in 1..(Len(emotional_peaks) - 1) |->
     starts[emotional_peaks[i + 1]] - starts[emotional_peaks[i]]]

\* peak_rhythm for at most one spacing: the mean in tenths, the score in
\* hundredths
PeakRhythm(peak_spacings, peak_count) ==
  IF peak_spacings # <<>>
  THEN [peak_spacing_mean |-> 10 * peak_spacings[1],
        peak_spacing_variance |-> 0,
        regularity_score |-> IF peak_spacings[1] > 0 THEN 100 ELSE 0,
        peak_count |-> peak_count]
  ELSE [peak_spacing_mean |-> 0, peak_spacing_variance |-> 0,
        regularity_score |-> 0, peak_count |-> peak_count]

compute_emotional_metrics(expression_timeline, gesture_timeline, duration) ==
  LET seconds == duration + 1
      starts == WindowStarts(seconds, SampleInterval)
      dominant == [w \in 1..Len(starts) |->
                     LET emotions == EmotionsInWindow(expression_timeline, starts[w], SampleInterval)
                     IN IF emotions # <<>> THEN MostCommon(emotions) ELSE "neutral"]
      emotion_valence == [w \in 1..Len(starts) |-> Valence(dominant[w])]
      \* windows whose abs(valence) exceeds the threshold, at most 5 kept
      intense == {w \in 1..Len(starts) :
                    \/ emotion_valence[w] > IntensityThreshold
                    \/ emotion_valence[w] < -IntensityThreshold}
      emotional_peaks == TopPeaks(SortedPeaks(intense, emotion_valence))
      peak_spacings == PeakSpacings(emotional_peaks, starts)
      checks == {j \in 1..Len(expression_timeline) :
                   /\ HasKey(gesture_timeline, expression_timeline[j].k)
                   /\ HasKey(expression_timeline[j].v.d, N("expression"))}
      aligned == {j \in checks :
                    Aligned(Get(expression_timeline[j].v.d, N("expression")).s[1],
                            GestureLabels(Get(gesture_timeline, expression_timeline[j].k)))}
  IN \* two or more peak spacings reach the call of the undefined name variance
     IF Len(peak_spacings) > 1 THEN Raise("NameError")
     ELSE Return(
       [emotion_sequence |-> [w \in 1..Len(starts) |-> Standardized(dominant[w])],
        emotion_valence |-> emotion_valence,
        emotional_trajectory |-> emotional_trajectory(emotion_valence),
        emotion_timestamps |-> [w \in 1..Len(starts) |->
                                  <<starts[w], Min(starts[w] + SampleInterval, seconds)>>],
        emotional_peaks |-> [i \in 1..Len(emotional_peaks) |-> starts[emotional_peaks[i]]],
        peak_intensity_count |-> Cardinality(intense),
        peak_rhythm |-> PeakRhythm(peak_spacings, Len(emotional_peaks)),
        alignment_count |-> Cardinality(aligned),
        total_checks |-> Cardinality(checks)])

----------------------------------------------------------------------------
(* compute_scene_pacing_metrics: shot durations, scene changes and the     *)
(* counts derived from them                                                *)

\* parse_timestamp_to_seconds(x) or 0
PacingSortKey(timestamp) ==
  LET t == parse_timestamp_to_seconds(timestamp) IN IF t.none THEN 0 ELSE t.val

\* the loop over range(len(timestamps)) from index i on; acc holds
\* shot_durations and scene_changes
RECURSIVE PacingLoop(_, _, _, _, _)
PacingLoop(acc, timestamps, i, scene_timeline, video_duration) ==
  IF i > Len(timestamps) THEN acc
  ELSE LET current_time == parse_timestamp_to_seconds(timestamps[i])
       IN IF current_time.none
          THEN PacingLoop(acc, timestamps, i + 1, scene_timeline, video_duration)
          ELSE LET next_time == IF i < Len(timestamps)
                                THEN parse_timestamp_to_seconds(timestamps[i + 1])
                                ELSE NoSecond
                   durations ==
                     IF i < Len(timestamps)
                     THEN IF ~next_time.none
                          THEN Append(acc.shot_durations, next_time.val - current_time.val)
                          ELSE acc.shot_durations
                     ELSE IF video_duration - current_time.val > 0
                          THEN Append(acc.shot_durations, video_duration - current_time.val)
                          ELSE acc.shot_durations
                   scene_data == Get(scene_timeline, timestamps[i])
                   changes ==
                     IF GetOr(scene_data.d, N("type"), JNone) = JStr(<<"scene_change">>)
                     THEN Append(acc.scene_changes,
                                 [timestamp |-> timestamps[i], time |-> current_time.val])
                     ELSE acc.scene_changes
               IN PacingLoop([shot_durations |-> durations, scene_changes |-> changes],
                             timestamps, i + 1, scene_timeline, video_duration)

\* round(a / b, 2) of Python for integers a and b > 0, in hundredths: the
\* nearest hundredth; a / b lies halfway between two hundredths only when 8
\* divides b, and a / 8 is a float that round() sends to the even hundredth
Round2(a, b) ==
  LET q == (100 * a) \div b
      rem == 100 * a - q * b
  IN IF 2 * rem < b THEN q
     ELSE IF 2 * rem > b THEN q + 1
     ELSE IF q % 2 = 0 THEN q ELSE q + 1

\* the scene changes before mid_point = video_duration / 2
FirstHalfCuts(scene_changes, video_duration) ==
  Cardinality({j \in 1..Len(scene_changes) : 2 * scene_changes[j].time < video_duration})
\* the scene changes at or after mid_point
SecondHalfCuts(scene_changes, video_duration) ==
  Cardinality({j \in 1..Len(scene_changes) : 2 * scene_changes[j].time >= video_duration})

\* the acceleration score as returned, round(acceleration_score, 2), in
\* hundredths
AccelerationScore_Unguarded(first_half_cuts, second_half_cuts) ==
  IF first_half_cuts = 0 THEN Raise("ZeroDivisionError")
  ELSE Return(Round2(second_half_cuts - first_half_cuts, first_half_cuts))
AccelerationScore(first_half_cuts, second_half_cuts) ==
  IF first_half_cuts > 0
  THEN Return(Round2(second_half_cuts - first_half_cuts, first_half_cuts))
  ELSE Return(IF second_half_cuts = 0 THEN 0 ELSE 100)

\* the code point of the characters timeline keys are made of
CharOrd(c) ==
  CASE c = "\n" -> 10
    [] c = " " -> 32
    [] c = "-" -> 45
    [] c \in Digits -> 48 + DigitVal(c)
    [] c = "a" -> 97 [] c = "b" -> 98 [] c = "c" -> 99 [] c = "d" -> 100
    [] c = "e" -> 101 [] c = "f" -> 102 [] c = "s" -> 115 [] c = "x" -> 120

\* s < t on Python strings
RECURSIVE StrLess(_, _)
StrLess(s, t) ==
  IF t = <<>> THEN FALSE
  ELSE IF s = <<>> THEN TRUE
  ELSE IF s[1] = t[1] THEN StrLess(Tail(s), Tail(t))
  ELSE CharOrd(s[1]) < CharOrd(t[1])

\* sorted(timeline.keys()): the keys in ascending string order
SortedKeys(timeline) ==
  [i \in 1..Len(timeline) |->
     timeline[CHOOSE e \in 1..Len(timeline) :
                Cardinality({j \in 1..Len(timeline) :
                               StrLess(timeline[j].k, timeline[e].k)}) = i - 1].k]

\* the number of entries of a list that differ from their predecessor
Changes(labels) == Cardinality({j \in 2..Len(labels) : labels[j - 1] # labels[j]})

\* the montage loop over shot_durations from index i on (indices from 1);
\* acc holds montage_segments, consecutive_rapid and montage_start
RECURSIVE MontageLoop(_, _, _)
MontageLoop(acc, i, shot_durations) ==
  IF i > Len(shot_durations) THEN acc
  ELSE MontageLoop(
         IF 2 * shot_durations[i] < 3
         THEN [acc EXCEPT !.montage_start = IF acc.consecutive_rapid = 0 THEN i ELSE @,
                          !.consecutive_rapid = @ + 1]
         ELSE [acc EXCEPT !.montage_segments =
                             IF acc.consecutive_rapid >= 3
                             THEN Append(@, [start |-> acc.montage_start, end |-> i - 1,
                                             shots |-> acc.consecutive_rapid])
                             ELSE @,
                          !.consecutive_rapid = 0],
         i + 1, shot_durations)

\* montage_segments after the check of the last segment
MontageSegments(shot_durations) ==
  LET acc == MontageLoop([montage_segments |-> <<>>, consecutive_rapid |-> 0,
                          montage_start |-> 0], 1, shot_durations)
  IN IF acc.consecutive_rapid >= 3
     THEN Append(acc.montage_segments,
                 [start |-> acc.montage_start, end |-> Len(shot_durations),
                  shots |-> acc.consecutive_rapid])
     ELSE acc.montage_segments

\* pacing_curve: the cuts of each 10-second window below int(video_duration)
PacingCurve(scene_changes, video_duration) ==
  [w \in 1..((video_duration + 9) \div 10) |->
     Cardinality({j \in 1..Len(scene_changes) :
                    /\ 10 * (w - 1) <= scene_changes[j].time
                    /\ scene_changes[j].time < Min(10 * w, video_duration)})]

\* cut_density_zones: the windows with at least 80% of the peak's cuts
CutDensityZones(pacing_curve) ==
  {w \in 1..Len(pacing_curve) :
     /\ \E v \in 1..Len(pacing_curve) : pacing_curve[v] > 0
     /\ \A v \in 1..Len(pacing_curve) : 10 * pacing_curve[w] >= 8 * pacing_curve[v]}

\* the loop for camera_movement_cuts subtracts the start second of each
\* camera entry from the cut's time until one is within half a second; a
\* malformed key met before that gives None - int
CameraLoopRaises(scene_changes, camera_distance_timeline) ==
  \E c \in 1..Len(scene_changes), m \in 1..Len(camera_distance_timeline) :
    /\ parse_timestamp_to_seconds(camera_distance_timeline[m].k).none
    /\ \A j \in 1..(m - 1) :
         parse_timestamp_to_seconds(camera_distance_timeline[j].k).val
           # scene_changes[c].time

\* shot_type_changes: the changes of .get('distance') over the sorted keys
ShotTypeChanges(camera_distance_timeline) ==
  LET keys == SortedKeys(camera_distance_timeline)
      distance == [i \in 1..Len(keys) |->
                     GetOr(Get(camera_distance_timeline, keys[i]).d, N("distance"), JNone)]
  IN Cardinality({j \in 2..Len(keys) :
                    Truthy(distance[j - 1]) /\ distance[j] # distance[j - 1]})

\* the metrics returned for the loop's shot_durations and scene_changes
PacingMetrics(shot_durations, scene_changes, acceleration_score, video_duration, camera_distance_timeline) ==
  IF CameraLoopRaises(scene_changes, camera_distance_timeline) THEN Raise("TypeError")
  ELSE IF Raised(acceleration_score) THEN acceleration_score
  ELSE Return(
     [shot_durations |-> shot_durations,
      scene_changes |-> scene_changes,
      total_shots |-> Len(scene_changes) + 1,
      acceleration_score |-> acceleration_score.val,
      shot_type_changes |-> ShotTypeChanges(camera_distance_timeline),
      montage_segments |-> Len(MontageSegments(shot_durations)),
      cut_density_zones |-> CutDensityZones(PacingCurve(scene_changes, video_duration)),
      has_montage_sections |->
        CutDensityZones(PacingCurve(scene_changes, video_duration)) # {},
      shot_distribution |->
        [short |-> Cardinality({j \in 1..Len(shot_durations) : shot_durations[j] < 2}),
         medium |-> Cardinality({j \in 1..Len(shot_durations) :
                                   2 <= shot_durations[j] /\ shot_durations[j] < 5}),
         long |-> Cardinality({j \in 1..Len(shot_durations) : shot_durations[j] >= 5})]])

PacingAfterLoop(acc, video_duration, camera_distance_timeline) ==
  PacingMetrics(acc.shot_durations, acc.scene_changes,
                AccelerationScore(FirstHalfCuts(acc.scene_changes, video_duration),
                                  SecondHalfCuts(acc.scene_changes, video_duration)),
                video_duration, camera_distance_timeline)

\* sorted(scene_timeline.keys(), key=...)
PacingTimestamps(scene_timeline) ==
  LET sorted == StableSort([i \in 1..Len(scene_timeline) |->
                             [key |-> PacingSortKey(scene_timeline[i].k),
                              item |-> scene_timeline[i].k]])
  IN [i \in 1..Len(sorted) |-> sorted[i].item]

\* object_timeline (complexity_changes, visual_load_per_scene) is not modelled
compute_scene_pacing_metrics(scene_timeline, video_duration, camera_distance_timeline) ==
  PacingAfterLoop(PacingLoop([shot_durations |-> <<>>, scene_changes |-> <<>>],
                             PacingTimestamps(scene_timeline), 1, scene_timeline,
                             video_duration),
                  video_duration, camera_distance_timeline)

----------------------------------------------------------------------------
(* The engines on a timeline of one well-formed key and malformed keys     *)

MaxMalformed == 2

WellFormedKeys == {K_0_1s, K_5_6s}
MalformedKeys == {K_3_4, K_3_xs, K_abc, K_7, K_12}

\* the entries the detectors write: an expression, gestures, a scene type, texts
V_happy ==
  JDict(<<Entry(N("expression"), JStr(<<"happy">>)),
          Entry(N("gestures"), JList(<<JStr(<<"thumbs_up">>)>>)),
          Entry(N("type"), JStr(<<"scene_change">>)),
          Entry(N("texts"), JList(<<JStr(<<"hi">>), JStr(<<"yo">>)>>))>>)
V_sad ==
  JDict(<<Entry(N("expression"), JStr(<<"sad">>)),
          Entry(N("gestures"), JList(<<JStr(<<"pointing">>)>>)),
          Entry(N("type"), JStr(<<"cut">>))>>)
EngineValues == {V_happy, V_sad}

\* one well-formed key and at most MaxMalformed malformed keys, in any order
EngineTimelines ==
  {d \in UNION {[1..m -> {Entry(k, v) : k \in WellFormedKeys \cup MalformedKeys,
                                        v \in EngineValues}] : m \in 1..(MaxMalformed + 1)} :
     /\ DistinctKeys(d)
     /\ Cardinality({i \in 1..Len(d) : d[i].k \in WellFormedKeys}) = 1}

\* the timeline as the detectors' output under one or two timeline names
EnginePlacements ==
  {<<N("expressionTimeline")>>, <<N("gestureTimeline")>>, <<N("textOverlayTimeline")>>,
   <<N("sceneChangeTimeline")>>, <<N("expressionTimeline"), N("gestureTimeline")>>}

EngineDurations == {3, 12}

InitEngines ==
  /\ input \in {[timelines |-> [i \in 1..Len(names) |-> Entry(names[i], JDict(tl))],
                 duration_seconds |-> duration] :
                  tl \in EngineTimelines, names \in EnginePlacements,
                  duration \in EngineDurations}
  /\ op = "input"
  /\ out = Return(JNone)

\* the engines on the arguments their callers pass
DensityOf(timelines, duration) ==
  Return(compute_creative_density_analysis(timelines, duration))
EmotionalOf(timelines, duration) ==
  compute_emotional_metrics(GetOr(timelines, N("expressionTimeline"), JDict(<<>>)).d,
                            GetOr(timelines, N("gestureTimeline"), JDict(<<>>)).d, duration)
PacingOf(timelines, duration) ==
  compute_scene_pacing_metrics(GetOr(timelines, N("sceneChangeTimeline"), JDict(<<>>)).d,
                               duration,
                               GetOr(timelines, N("cameraDistanceTimeline"), JDict(<<>>)).d)

ComputeCreativeDensityAnalysis ==
  /\ op = "input"
  /\ op' = "compute_creative_density_analysis"
  /\ out' = DensityOf(input.timelines, input.duration_seconds)
  /\ UNCHANGED input

ComputeEmotionalMetrics ==
  /\ op = "input"
  /\ op' = "compute_emotional_metrics"
  /\ out' = EmotionalOf(input.timelines, input.duration_seconds)
  /\ UNCHANGED input

ComputeScenePacingMetrics ==
  /\ op = "input"
  /\ op' = "compute_scene_pacing_metrics"
  /\ out' = PacingOf(input.timelines, input.duration_seconds)
  /\ UNCHANGED input

NextEngines ==
  \/ ComputeCreativeDensityAnalysis
  \/ ComputeEmotionalMetrics
  \/ ComputeScenePacingMetrics

SpecEngines == InitEngines /\ [][NextEngines]_vars

\* the timelines with only the entries whose key matches ^\d+-\d+s$
WellFormedOnly(timelines) ==
  [i \in 1..Len(timelines) |->
     Entry(timelines[i].k,
           JDict(SelectSeq(timelines[i].v.d, LAMBDA e : MatchesIntervalPattern(e.k))))]

\* C3: malformed keys are inert: each engine returns, for a timeline of one
\* well-formed entry and any malformed keys around it, exactly what it
\* returns for the well-formed entry alone.
C3_MalformedKeysInert ==
  LET alone == WellFormedOnly(input.timelines)
  IN /\ op = "compute_creative_density_analysis"
          => out = DensityOf(alone, input.duration_seconds)
     /\ op = "compute_emotional_metrics"
          => out = EmotionalOf(alone, input.duration_seconds)
     /\ op = "compute_scene_pacing_metrics"
          => out = PacingOf(alone, input.duration_seconds)

----------------------------------------------------------------------------
(* Default configuration of the public entry points *)

\* MLDataValidator.__init__(self, strict_mode: bool = True)
DefaultStrictMode == TRUE
\* create_safe_context(unified_data, prompt_name, strict: bool = False)
DefaultStrict == FALSE

\* C11: called with the default configuration (MLDataValidator() and
\* create_safe_context without a strict argument) no public entry point
\* raises on a structurally invalid document (one for which
\* validate_unified_analysis reports issues): extract_safe_context_data and
\* create_safe_context return a context with its provenance or error block.
C11_DefaultsNeverRaise ==
  (/\ ~Raised(validate_unified_analysis(input.doc))
   /\ validate_unified_analysis(input.doc).val[2] # <<>>) =>
    /\ (op = "extract_safe_context_data" /\ input.strict = DefaultStrictMode)
         => (~Raised(out) /\ HasKey(out.val, N("_validation")))
    /\ (op = "create_safe_context" /\ input.strict = DefaultStrict)
         => (~Raised(out) /\ HasKey(out.val, N("_validation")))

----------------------------------------------------------------------------
(* The density engine on timelines of counted entries *)

MaxDensityEntries == 3

K_neg == <<"-", "1", "-", "0", "s">>

DensityStarts == {0, 2, 5, 6, 9, 10, 11}
DensityCounts == {1, 5, 8}

\* the elements of a set of numbers in ascending order
RECURSIVE Ascending(_)
Ascending(S) ==
  IF S = {} THEN <<>>
  ELSE LET least == CHOOSE x \in S : \A y \in S : x <= y
       IN <<least>> \o Ascending(S \ {least})

\* one entry per chosen start second, each with its own element count, and
\* possibly one entry with a negative start
CountedEntry(start, count) ==
  Entry(IntervalKey(start, start + 1), JDict(<<Entry(N("total_objects"), JNum(count))>>))

DensityTimelines ==
  UNION {{[i \in 1..Len(Ascending(S)) |-> CountedEntry(Ascending(S)[i], c[Ascending(S)[i]])]
            \o neg :
            c \in [S -> DensityCounts],
            neg \in {<<>>, <<Entry(K_neg, JDict(<<Entry(N("total_objects"), JNum(5))>>))>>}} :
         S \in {T \in SUBSET DensityStarts : Cardinality(T) <= MaxDensityEntries}}

DensityDurations == {9, 10}

InitDensity ==
  /\ input \in {[timelines |-> <<Entry(name, JDict(tl))>>, duration_seconds |-> duration] :
                  tl \in DensityTimelines,
                  name \in {N("objectTimeline"), N("textOverlayTimeline")},
                  duration \in DensityDurations}
  /\ op = "input"
  /\ out = Return(JNone)

NextDensity == ComputeCreativeDensityAnalysis

SpecDensity == InitDensity /\ [][NextDensity]_vars

\* strictly ascending by second
AscendingBySecond(peaks) ==
  \A i \in 1..(Len(peaks) - 1) : peaks[i].second < peaks[i + 1].second

\* the per-second counts [0,0,5,0,0,0,8,0,0,0]
ExampleCounts == <<0, 0, 5, 0, 0, 0, 8, 0, 0, 0>>

\* C12: the peak moments of compute_creative_density_analysis are sorted by
\* second ascending, each carries the count of its second and that count is
\* above the global mean; the listed peaks (at most five) are the first of
\* them in time; for the counts [0,0,5,0,0,0,8,0,0,0] the peaks are second 2
\* and then second 6, second 6 with the higher count.
C12_PeakOrdering ==
  op = "compute_creative_density_analysis" =>
    LET counts == out.val.density_per_second
        peaks == out.val.peak_moments
        shown == out.val.peak_density_moments
    IN /\ AscendingBySecond(peaks)
       /\ \A i \in 1..Len(peaks) :
            /\ peaks[i].total_elements = counts[peaks[i].second + 1]
            /\ peaks[i].total_elements * Len(counts) > SumSeq(counts)
       /\ AscendingBySecond(shown)
       /\ \A i \in 1..Len(shown) : shown[i] = peaks[i]
       /\ counts = ExampleCounts =>
            /\ Len(peaks) = 2
            /\ peaks[1].second = 2 /\ peaks[2].second = 6
            /\ peaks[2].total_elements > peaks[1].total_elements
            /\ shown = peaks

\* the example counts were produced and both peaks are reported
C12_Witness ==
  /\ op = "compute_creative_density_analysis"
  /\ out.val.density_per_second = ExampleCounts
  /\ Len(out.val.peak_moments) = 2
  /\ out.val.peak_moments[1] = [second |-> 2, total_elements |-> 5]
  /\ out.val.peak_moments[2] = [second |-> 6, total_elements |-> 8]

----------------------------------------------------------------------------
(* The pacing engine on timelines of scene changes *)

MaxCuts == 4

PacingStarts == {0, 1, 2, 3, 5, 6, 7, 8}
PacingDurations == {0, 7, 10}

SceneChange == JDict(<<Entry(N("type"), JStr(<<"scene_change">>))>>)

\* at most MaxCuts scene changes, one second long each, in time order
PacingTimelines ==
  {[i \in 1..Len(Ascending(S)) |->
      Entry(IntervalKey(Ascending(S)[i], Ascending(S)[i] + 1), SceneChange)] :
     S \in {T \in SUBSET PacingStarts : Cardinality(T) <= MaxCuts}}

InitPacing ==
  /\ input \in {[timelines |-> <<Entry(N("sceneChangeTimeline"), JDict(tl))>>,
                 duration_seconds |-> duration] :
                  tl \in PacingTimelines, duration \in PacingDurations}
  /\ op = "input"
  /\ out = Return(JNone)

NextPacing == ComputeScenePacingMetrics

SpecPacing == InitPacing /\ [][NextPacing]_vars

\* the start seconds of the scene changes of the input
CutTimes ==
  LET tl == Get(input.timelines, N("sceneChangeTimeline")).d
  IN {parse_timestamp_to_seconds(tl[i].k).val : i \in 1..Len(tl)}
\* the cuts before the midpoint and the cuts at or after it
CutsBefore == Cardinality({t \in CutTimes : 2 * t < input.duration_seconds})
CutsAfter == Cardinality({t \in CutTimes : 2 * t >= input.duration_seconds})

C13_WitnessZero ==
  /\ op = "compute_scene_pacing_metrics"
  /\ CutsBefore = 0 /\ CutsAfter >= 1
  /\ ~Raised(out)
  /\ out.val.acceleration_score = 100

----------------------------------------------------------------------------
(* The emotional engine on one expression per sampling window *)

\* the expressions of the valences -0.8, -0.1, 0.1 and 0.8
TrajectoryExpressions == {"angry", "contemplative", "calm", "happy"}
\* with three sampling windows a weaker peak, of intensity 0.7, is drawn too
PeakExpressions == TrajectoryExpressions \cup {"fear"}
ExpressionsFor(duration) ==
  IF duration < 3 * SampleInterval THEN PeakExpressions ELSE TrajectoryExpressions
\* durations of three and of six sampling windows
TrajectoryDurations == {12, 27}

Expression(label) == JDict(<<Entry(N("expression"), JStr(<<label>>))>>)

\* one expression at the first second of every window of the duration
TrajectoryTimelines(duration) ==
  {[w \in 1..Len(labels) |->
      Entry(IntervalKey((w - 1) * SampleInterval, (w - 1) * SampleInterval + 1),
            Expression(labels[w]))] :
     labels \in [1..Len(WindowStarts(duration + 1, SampleInterval)) -> ExpressionsFor(duration)]}

InitEmotion ==
  /\ input \in UNION {{[timelines |-> <<Entry(N("expressionTimeline"), JDict(tl))>>,
                        duration_seconds |-> duration] : tl \in TrajectoryTimelines(duration)} :
                      duration \in TrajectoryDurations}
  /\ op = "input"
  /\ out = Return(JNone)

NextEmotion == ComputeEmotionalMetrics

SpecEmotion == InitEmotion /\ [][NextEmotion]_vars

\* the valence of the expression of each window of the input, in tenths
SampledValence ==
  LET tl == Get(input.timelines, N("expressionTimeline")).d
  IN [w \in 1..Len(tl) |-> Valence(Get(tl[w].v.d, N("expression")).s[1])]

\* the sequence [-0.8, -0.8, -0.1, 0.1, 0.8, 0.8]
ExampleValence == <<-8, -8, -1, 1, 8, 8>>

\* C14: for a sampled valence sequence of three or six values the engine
\* returns a trajectory: 'ascending' when the mean of the last third exceeds
\* the mean of the first third by more than 0.3, 'descending' when the first
\* exceeds the last by more than 0.3, otherwise 'u-shaped' or 'flat'; the
\* sequence [-0.8,-0.8,-0.1,0.1,0.8,0.8] is classified 'ascending'.
C14_Trajectory ==
  op = "compute_emotional_metrics" =>
    LET v == SampledValence
        third == Len(v) \div 3
        first == SubSeq(v, 1, third)
        last == SubSeq(v, Len(v) - third + 1, Len(v))
    IN /\ ~Raised(out)
       /\ out.val.emotion_valence = v
       /\ MeanExceeds(last, first, 3) => out.val.emotional_trajectory = "ascending"
       /\ (~MeanExceeds(last, first, 3) /\ MeanExceeds(first, last, 3))
            => out.val.emotional_trajectory = "descending"
       /\ (~MeanExceeds(last, first, 3) /\ ~MeanExceeds(first, last, 3))
            => out.val.emotional_trajectory \in {"u-shaped", "flat"}
       /\ v = ExampleValence => out.val.emotional_trajectory = "ascending"

----------------------------------------------------------------------------
(* compute_speech_analysis_metrics: a speech segment is a record of its    *)
(* start and end second, its text as a sequence of words and its           *)
(* confidence in tenths; the transcript is a sequence of words             *)

\* sorted(speech_segments, key=lambda x: x.get('start', 0))
SortedSegments(speech_segments) ==
  LET sorted == StableSort([i \in 1..Len(speech_segments) |->
                             [key |-> speech_segments[i].start, item |-> speech_segments[i]]])
  IN [i \in 1..Len(sorted) |-> sorted[i].item]

\* the type of a pause of more than one second
PauseType_NoDramatic(gap_duration) ==
  IF gap_duration > 3 THEN "awkward" ELSE "strategic"
PauseType(gap_duration) ==
  IF gap_duration > 3 THEN "awkward"
  ELSE IF gap_duration > 2 THEN "dramatic" ELSE "strategic"

\* the pauses before the sorted segments i, i + 1, ...
RECURSIVE PauseGaps(_, _)
PauseGaps(sorted_segments, i) ==
  IF i > Len(sorted_segments) THEN <<>>
  ELSE (IF sorted_segments[i].start - sorted_segments[i - 1].end > 1
        THEN <<[start |-> sorted_segments[i - 1].end,
                duration |-> sorted_segments[i].start - sorted_segments[i - 1].end,
                type |-> PauseType(sorted_segments[i].start - sorted_segments[i - 1].end)]>>
        ELSE <<>>)
       \o PauseGaps(sorted_segments, i + 1)

RECURSIVE MaxDuration(_)
MaxDuration(gaps) ==
  IF gaps = <<>> THEN 0 ELSE Max(gaps[1].duration, MaxDuration(Tail(gaps)))

\* metrics['pause_analysis']
PauseAnalysis(gaps) ==
  [gaps |-> gaps,
   total_pause_time |-> SumSeq([i \in 1..Len(gaps) |-> gaps[i].duration]),
   pause_count |-> Len(gaps),
   longest_pause_duration |-> MaxDuration(gaps),
   strategic_pauses |-> Cardinality({i \in 1..Len(gaps) : gaps[i].type = "strategic"}),
   awkward_pauses |-> Cardinality({i \in 1..Len(gaps) : gaps[i].type = "awkward"})]

\* speech_time: the sum of the segment durations
SpeechTime(speech_segments) ==
  SumSeq([i \in 1..Len(speech_segments) |-> speech_segments[i].end - speech_segments[i].start])

\* the positions (from 1) at which the phrase starts in the words: the matches
\* of \b(phrase)\b in a transcript of words separated by single spaces
Occurrences(words, phrase) ==
  {i \in 1..(Len(words) - Len(phrase) + 1) : SubSeq(words, i, i + Len(phrase) - 1) = phrase}

\* the matches of a list of phrases, each a pair of its phrase and position
Matches(words, phrases) ==
  {m \in (phrases \X (1..Len(words))) : m[2] \in Occurrences(words, m[1])}

\* hook_patterns: question, hyperbole, promise and value_prop
HookPhrases ==
  {<<"did", "you", "know">>, <<"guess", "what">>, <<"wait", "for", "it">>,
   <<"watch", "this">>, <<"check", "this", "out">>,
   <<"amazing">>, <<"incredible">>, <<"mind-blowing">>, <<"shocking">>, <<"unbelievable">>,
   <<"you", "won't", "believe">>, <<"you", "need", "to", "see">>, <<"this", "will", "change">>,
   <<"secret">>, <<"trick">>, <<"hack">>, <<"tip">>}
\* the greeting pattern ^(hey|hi|hello|what's up) on a transcript whose
\* first word is not a longer word beginning with one of these
GreetingPhrases == {<<"hey">>, <<"hi">>, <<"hello">>, <<"what's", "up">>}
\* cta_patterns: engagement, traffic, conversion, save and viral
CtaPhrases ==
  {<<"follow">>, <<"like">>, <<"subscribe">>, <<"comment">>, <<"share">>, <<"hit", "the">>,
   <<"link", "in", "bio">>, <<"check", "out">>, <<"visit">>, <<"go", "to">>,
   <<"buy">>, <<"purchase">>, <<"get", "yours">>, <<"order", "now">>,
   <<"save", "this">>, <<"bookmark">>, <<"remember">>,
   <<"tag", "someone">>, <<"send", "this">>, <<"share", "with">>}
FillerPhrases ==
  {<<"um">>, <<"uh">>, <<"like">>, <<"you", "know">>, <<"basically">>, <<"literally">>,
   <<"actually">>}
DirectAddressWords == {"you", "your", "you're", "you'll", "you've"}

\* hook_phrases: the matches of the hook patterns in the transcript
HookMatches(transcript) ==
  Matches(transcript, HookPhrases)
    \cup {m \in Matches(transcript, GreetingPhrases) : m[2] = 1}

\* round(word_position / word_count * speech_time, 2), in hundredths
EstimatedTime(word_position, word_count, speech_time) ==
  IF word_count > 0 THEN Round2(word_position * speech_time, word_count) ELSE 0

\* the timestamp of a match, in hundredths of a second
MatchTime(m, transcript, speech_time) ==
  EstimatedTime(m[2] - 1, Len(transcript), speech_time)

\* min(opening_hooks / 2, 1) in hundredths; the opening is the first 3 seconds
OpeningHookStrength(hook_phrases, transcript, speech_time) ==
  Min(50 * Cardinality({m \in hook_phrases : MatchTime(m, transcript, speech_time) < 300}),
      100)

\* min(len(hook_phrases) * 0.2 + opening_hook_strength, 1), in hundredths
HookEffectivenessScore(hook_phrases, transcript, speech_time) ==
  Min(20 * Cardinality(hook_phrases)
        + OpeningHookStrength(hook_phrases, transcript, speech_time), 100)

\* sorted(cta_phrases, key=timestamp) as the sequence of the timestamps
RECURSIVE SortedTimes(_, _, _)
SortedTimes(phrases, transcript, speech_time) ==
  IF phrases = {} THEN <<>>
  ELSE LET first == CHOOSE m \in phrases :
                      \A x \in phrases : MatchTime(m, transcript, speech_time)
                                           <= MatchTime(x, transcript, speech_time)
       IN <<MatchTime(first, transcript, speech_time)>>
            \o SortedTimes(phrases \ {first}, transcript, speech_time)

\* the number of clusters closed from index i on; a cluster has two or more
\* matches, each less than 5 seconds after the one before
RECURSIVE ClusterLoop(_, _, _)
ClusterLoop(times, i, cluster_count) ==
  IF i > Len(times) THEN (IF cluster_count >= 2 THEN 1 ELSE 0)
  ELSE IF times[i] - times[i - 1] < 500
       THEN ClusterLoop(times, i + 1, cluster_count + 1)
       ELSE (IF cluster_count >= 2 THEN 1 ELSE 0) + ClusterLoop(times, i + 1, 1)

\* len(cta_clustering)
CtaClusters(times) == IF times = <<>> THEN 0 ELSE ClusterLoop(times, 2, 1)

\* min(len(cta_phrases) * 0.1 + len(cta_clustering) * 0.3, 1), in hundredths
CtaEffectivenessScore(cta_phrases, transcript, speech_time) ==
  Min(10 * Cardinality(cta_phrases)
        + 30 * CtaClusters(SortedTimes(cta_phrases, transcript, speech_time)), 100)

SpeechWindow == 5

\* round(a / b, 1) of Python for integers a >= 0 and b > 0, in tenths
Round1(a, b) ==
  LET q == (10 * a) \div b
      rem == 10 * a - q * b
  IN IF 2 * rem < b THEN q
     ELSE IF 2 * rem > b THEN q + 1
     ELSE IF q % 2 = 0 THEN q ELSE q + 1

\* the seconds of the segment inside the window
Overlap(segment, window_start, window_end) ==
  IF segment.start < window_end /\ segment.end > window_start
       /\ segment.end - segment.start > 0
  THEN Min(segment.end, window_end) - Max(segment.start, window_start)
  ELSE 0

\* int(segment_words * (overlap_duration / segment_duration))
OverlapWords(segment, window_start, window_end) ==
  IF Overlap(segment, window_start, window_end) > 0
  THEN (Len(segment.text) * Overlap(segment, window_start, window_end))
         \div (segment.end - segment.start)
  ELSE 0

WindowWords(speech_segments, window_start, window_end) ==
  SumSeq([i \in 1..Len(speech_segments) |->
            OverlapWords(speech_segments[i], window_start, window_end)])
WindowTime(speech_segments, window_start, window_end) ==
  SumSeq([i \in 1..Len(speech_segments) |->
            Overlap(speech_segments[i], window_start, window_end)])

\* wpm_by_segment[window_key], in tenths
WindowWpm(speech_segments, window_start, window_end) ==
  IF WindowTime(speech_segments, window_start, window_end) > 0
  THEN Round1(60 * WindowWords(speech_segments, window_start, window_end),
              WindowTime(speech_segments, window_start, window_end))
  ELSE 0

\* the values of wpm_by_segment in the order of the windows
WpmBySegment(speech_segments, video_duration) ==
  [w \in 1..Len(WindowStarts(video_duration, SpeechWindow)) |->
     WindowWpm(speech_segments, WindowStarts(video_duration, SpeechWindow)[w],
               Min(WindowStarts(video_duration, SpeechWindow)[w] + SpeechWindow,
                   video_duration))]

\* energy_level_windows[window]: round(min(wpm / speech_rate_wpm, 2), 2) in
\* hundredths, where speech_rate_wpm = word_count / speech_time * 60
EnergyLevel(wpm, word_count, speech_time) ==
  IF speech_time > 0 /\ word_count > 0
  THEN Min(Round2(wpm * speech_time, 600 * word_count), 200)
  ELSE 0

\* energy_variance > 0.1, the sample variance of the energy levels
EnergyVaries(energy_values) ==
  /\ Len(energy_values) > 1
  /\ Len(energy_values) * SumSeq([i \in 1..Len(energy_values) |->
                                    energy_values[i] * energy_values[i]])
       - SumSeq(energy_values) * SumSeq(energy_values)
     > 1000 * Len(energy_values) * (Len(energy_values) - 1)

EnergyValues(speech_segments, word_count, video_duration) ==
  [w \in 1..Len(WpmBySegment(speech_segments, video_duration)) |->
     EnergyLevel(WpmBySegment(speech_segments, video_duration)[w], word_count,
                 SpeechTime(speech_segments))]

\* the confidences of the segments that start inside one of the windows
WindowedConfidences(speech_segments, video_duration) ==
  SelectSeq([i \in 1..Len(speech_segments) |-> speech_segments[i]],
            LAMBDA segment :
              /\ 0 <= segment.start
              /\ segment.start < SpeechWindow * Len(WindowStarts(video_duration, SpeechWindow)))

\* overall_clarity_score: mean(overall_confidences), rounded, in hundredths
OverallClarityScore(confident) ==
  IF confident = <<>> THEN 0
  ELSE Round2(SumSeq([i \in 1..Len(confident) |-> confident[i].confidence]),
              10 * Len(confident))

\* filler_count
FillerCount(transcript) == Cardinality(Matches(transcript, FillerPhrases))

\* the words that contain 'the', 'and', 'for', 'you' or 'this'; no word of
\* the transcripts contains one of them inside a longer word
CommonInPair == {"the", "and", "for", "you", "this"}
CommonInTriple == {"the", "and", "for"}

\* phrase_counter: the counted 2- and 3-word phrases from index i; the last
\* two words start no phrase
CountedPhrases(words) ==
  {<<i, 2>> : i \in {j \in 1..(Len(words) - 2) :
                       {words[j], words[j + 1]} \cap CommonInPair = {}}}
  \cup
  {<<i, 3>> : i \in {j \in 1..(Len(words) - 2) :
                       {words[j], words[j + 1], words[j + 2]} \cap CommonInTriple = {}}}

PhraseAt(words, c) == SubSeq(words, c[1], c[1] + c[2] - 1)

\* len(repetition_phrases): the phrases counted twice or more among the five
\* most common
RepetitionCount(words) ==
  Min(5, Cardinality({PhraseAt(words, c) : c \in
                        {c \in CountedPhrases(words) :
                           \E d \in CountedPhrases(words) :
                             d # c /\ PhraseAt(words, d) = PhraseAt(words, c)}}))

\* mumbling_segments: confidence < 0.6
MumblingCount(speech_segments) ==
  Cardinality({i \in 1..Len(speech_segments) : speech_segments[i].confidence < 6})

DirectAddressCount(transcript) ==
  Cardinality({i \in 1..Len(transcript) : transcript[i] \in DirectAddressWords})

\* question_count on a transcript without sentence punctuation: the words
\* that end in a question mark
QuestionWords == {"why?", "what?", "how?"}
QuestionCount(transcript) ==
  Cardinality({i \in 1..Len(transcript) : transcript[i] \in QuestionWords})

\* seg_wpm > speech_rate_wpm * 1.3 and seg_duration > 2 for some segment
HasSpeechBurst(speech_segments, word_count) ==
  \E i \in 1..Len(speech_segments) :
    /\ speech_segments[i].end - speech_segments[i].start > 2
    /\ 10 * Len(speech_segments[i].text) * SpeechTime(speech_segments)
         > 13 * word_count * (speech_segments[i].end - speech_segments[i].start)

\* the entries of the timeline whose second is truthy and inside the segment
EntriesDuring(timeline, segment) ==
  {j \in 1..Len(timeline) :
     /\ ~parse_timestamp_to_seconds(timeline[j].k).none
     /\ parse_timestamp_to_seconds(timeline[j].k).val # 0
     /\ segment.start <= parse_timestamp_to_seconds(timeline[j].k).val
     /\ parse_timestamp_to_seconds(timeline[j].k).val <= segment.end}

\* speech_with_gesture
SpeechWithGesture(speech_segments, gesture_timeline) ==
  IF gesture_timeline # <<>> /\ speech_segments # <<>>
  THEN Cardinality({i \in 1..Len(speech_segments) :
                      EntriesDuring(gesture_timeline, speech_segments[i]) # {}})
  ELSE 0

\* face_time_during_speech
FaceTimeDuringSpeech(speech_segments, expression_timeline) ==
  IF expression_timeline # <<>> /\ SpeechTime(speech_segments) > 0
  THEN SumSeq([i \in 1..Len(speech_segments) |->
                 Cardinality(EntriesDuring(expression_timeline, speech_segments[i]))])
  ELSE 0

\* a factor as Python sums it: True counts 1
Factor(b) == IF b THEN 1 ELSE 0

\* sum(authenticity_factors) / len(authenticity_factors), in hundredths
AuthenticityScore(transcript, speech_segments, video_duration) ==
  20 * (Factor(Len(transcript) = 0 \/ 100 * FillerCount(transcript) < 5 * Len(transcript))
        + Factor(Len(transcript) > 0 /\ 100 * FillerCount(transcript) > Len(transcript))
        + Factor(RepetitionCount(transcript) < 3)
        + Factor(EnergyVaries(EnergyValues(speech_segments, Len(transcript), video_duration)))
        + Factor(MumblingCount(speech_segments) < 2))

\* the truthy engagement_factors over their number, rounded, in hundredths
VerbalEngagementScore(hook_effectiveness_score, transcript, speech_segments, speech_with_gesture) ==
  Round2(Factor(hook_effectiveness_score > 0)
         + Factor(DirectAddressCount(transcript) > 0)
         + Factor(QuestionCount(transcript) > 0)
         + Factor(speech_segments # <<>> /\ 2 * speech_with_gesture > Len(speech_segments))
         + Factor(SpeechTime(speech_segments) > 0
                    /\ 60 * Len(transcript) > 120 * SpeechTime(speech_segments))
         + Factor(HasSpeechBurst(speech_segments, Len(transcript))),
         6)

\* round(x / n, 2) of a ratio the code sets to 0 when n is not positive
Ratio2(x, n) == IF n > 0 THEN Round2(x, n) ELSE 0

\* (gesture_sync_ratio + face_on_screen_during_speech) / 2 with
\* gesture_sync_ratio = speech_with_gesture / len(speech_segments) and
\* face_on_screen_during_speech = face_time_during_speech / speech_time, each
\* 0 where the code does not compute it; rounded, in hundredths
VisualVerbalHarmonyScore(speech_with_gesture, segments, face_time, speech_time) ==
  IF segments > 0 /\ speech_time > 0
  THEN Round2(speech_with_gesture * speech_time + face_time * segments,
              2 * segments * speech_time)
  ELSE Ratio2(speech_with_gesture, 2 * segments)

\* the metrics of the summary scores and the sync ratios
SpeechMetrics(transcript, speech_segments, video_duration, hook_effectiveness_score, cta_effectiveness_score, speech_with_gesture, face_time) ==
  [word_count |-> Len(transcript),
   pause_analysis |-> PauseAnalysis(PauseGaps(SortedSegments(speech_segments), 2)),
   gesture_sync_ratio |-> Ratio2(speech_with_gesture, Len(speech_segments)),
   face_on_screen_during_speech |-> Ratio2(face_time, SpeechTime(speech_segments)),
   hook_effectiveness_score |-> hook_effectiveness_score,
   cta_effectiveness_score |-> cta_effectiveness_score,
   delivery_confidence_score |->
     OverallClarityScore(WindowedConfidences(speech_segments, video_duration)),
   authenticity_score |-> AuthenticityScore(transcript, speech_segments, video_duration),
   verbal_engagement_score |->
     VerbalEngagementScore(hook_effectiveness_score, transcript, speech_segments,
                           speech_with_gesture),
   visual_verbal_harmony_score |->
     VisualVerbalHarmonyScore(speech_with_gesture, Len(speech_segments), face_time,
                              SpeechTime(speech_segments))]

\* the speech timeline and the human analysis data do not enter these metrics
compute_speech_analysis_metrics(transcript, speech_segments, expression_timeline, gesture_timeline, video_duration) ==
  SpeechMetrics(transcript, speech_segments, video_duration,
                HookEffectivenessScore(HookMatches(transcript), transcript,
                                       SpeechTime(speech_segments)),
                CtaEffectivenessScore(Matches(transcript, CtaPhrases), transcript,
                                      SpeechTime(speech_segments)),
                SpeechWithGesture(speech_segments, gesture_timeline),
                FaceTimeDuringSpeech(speech_segments, expression_timeline))

----------------------------------------------------------------------------
(* The speech engine on a few segments with expressions and gestures *)

MaxSegments == 2

Segment(start, end, text, confidence) ==
  [start |-> start, end |-> end, text |-> text, confidence |-> confidence]

SpeechSegmentValues ==
  {Segment(0, 2, <<"hello", "world">>, 9),
   Segment(5, 8, <<"watch", "this", "amazing", "trick", "now">>, 9),
   Segment(1, 2, <<"follow", "you", "um">>, 5),
   Segment(4, 8, <<"um", "why?", "you">>, 5),
   Segment(12, 13, <<"follow">>, 9),
   Segment(6, 6, <<"um">>, 5),
   Segment(3, 4, <<"hello", "world">>, 9)}

\* at most MaxSegments different segments in any order
SpeechSegmentLists ==
  {speech_segments \in UNION {[1..n -> SpeechSegmentValues] : n \in 0..MaxSegments} :
     \A i, j \in 1..Len(speech_segments) : i # j => speech_segments[i] # speech_segments[j]}

\* the texts of the segments one after the other
RECURSIVE TranscriptOf(_)
TranscriptOf(speech_segments) ==
  IF speech_segments = <<>> THEN <<>>
  ELSE speech_segments[1].text \o TranscriptOf(Tail(speech_segments))

SpeechExpressionSeconds == {0, 1, 2}
SpeechGestureSeconds == {0, 1}
SpeechDurations == {4, 15}

Pointing == JDict(<<Entry(N("gestures"), JList(<<JStr(<<"pointing">>)>>))>>)

\* one entry of the value at each of the seconds, in time order
TimelineAt(seconds, value) ==
  [i \in 1..Len(Ascending(seconds)) |->
     Entry(IntervalKey(Ascending(seconds)[i], Ascending(seconds)[i] + 1), value)]

InitSpeech ==
  /\ input \in {[transcript |-> TranscriptOf(speech_segments),
                 speech_segments |-> speech_segments,
                 timelines |-> <<Entry(N("expressionTimeline"),
                                       JDict(TimelineAt(faces, Expression("happy")))),
                                 Entry(N("gestureTimeline"),
                                       JDict(TimelineAt(gestures, Pointing)))>>,
                 duration_seconds |-> duration] :
                  speech_segments \in SpeechSegmentLists,
                  faces \in SUBSET SpeechExpressionSeconds,
                  gestures \in SUBSET SpeechGestureSeconds,
                  duration \in SpeechDurations}
  /\ op = "input"
  /\ out = Return(JNone)

ComputeSpeechAnalysisMetrics ==
  /\ op = "input"
  /\ op' = "compute_speech_analysis_metrics"
  /\ out' = Return(compute_speech_analysis_metrics(
                     input.transcript, input.speech_segments,
                     GetOr(input.timelines, N("expressionTimeline"), JDict(<<>>)).d,
                     GetOr(input.timelines, N("gestureTimeline"), JDict(<<>>)).d,
                     input.duration_seconds))
  /\ UNCHANGED input

NextSpeech == ComputeSpeechAnalysisMetrics

SpecSpeech == InitSpeech /\ [][NextSpeech]_vars

\* the segments [0, 2] and [5, 8] of the scenario, in either order
ScenarioSegments ==
  {<<Segment(0, 2, <<"hello", "world">>, 9),
     Segment(5, 8, <<"watch", "this", "amazing", "trick", "now">>, 9)>>,
   <<Segment(5, 8, <<"watch", "this", "amazing", "trick", "now">>, 9),
     Segment(0, 2, <<"hello", "world">>, 9)>>}

\* the pairs of segments that follow each other when sorted by start, with
\* more than one second between the end of the first and the start of the next
PausedPairs(speech_segments) ==
  {i \in 2..Len(speech_segments) :
     SortedSegments(speech_segments)[i].start
       - SortedSegments(speech_segments)[i - 1].end > 1}

\* C15 as stated: for the segments [0,2] and [5,8] in either order the engine
\* reports exactly one pause, at 2 with duration 3, of type 'strategic'; every
\* gap of more than one second between consecutive start-sorted segments is
\* reported with exactly one type.
C15_PauseScenario ==
  op = "compute_speech_analysis_metrics" =>
    LET pauses == out.val.pause_analysis
    IN /\ pauses.pause_count = Cardinality(PausedPairs(input.speech_segments))
       /\ Len(pauses.gaps) = pauses.pause_count
       /\ \A i \in 1..Len(pauses.gaps) :
            pauses.gaps[i].type \in {"strategic", "dramatic", "awkward"}
       /\ input.speech_segments \in ScenarioSegments =>
            pauses.gaps = <<[start |-> 2, duration |-> 3, type |-> "strategic"]>>

\* C15 amended: the pause of the scenario is of type 'dramatic'; a pause of
\* more than 3 seconds is 'awkward', one of more than 2 and at most 3 seconds
\* 'dramatic', any other of more than 1 second 'strategic'.
C15_PauseDramatic ==
  op = "compute_speech_analysis_metrics" =>
    LET pauses == out.val.pause_analysis
    IN /\ pauses.pause_count = Cardinality(PausedPairs(input.speech_segments))
       /\ Len(pauses.gaps) = pauses.pause_count
       /\ \A i \in 1..Len(pauses.gaps) :
            /\ pauses.gaps[i].duration > 1
            /\ pauses.gaps[i].type = "awkward" <=> pauses.gaps[i].duration > 3
            /\ pauses.gaps[i].type = "dramatic" <=>
                 (pauses.gaps[i].duration > 2 /\ pauses.gaps[i].duration <= 3)
            /\ pauses.gaps[i].type = "strategic" <=> pauses.gaps[i].duration <= 2
       /\ input.speech_segments \in ScenarioSegments =>
            pauses.gaps = <<[start |-> 2, duration |-> 3, type |-> "dramatic"]>>

\* the scenario with the later segment first: one dramatic pause at 2
C15_Witness ==
  /\ op = "compute_speech_analysis_metrics"
  /\ input.speech_segments \in ScenarioSegments
  /\ input.speech_segments[1].start = 5
  /\ out.val.pause_analysis.pause_count = 1
  /\ out.val.pause_analysis.gaps[1] = [start |-> 2, duration |-> 3, type |-> "dramatic"]

\* the six summary scores of a result, in hundredths
SummaryScores(metrics) ==
  {metrics.hook_effectiveness_score, metrics.cta_effectiveness_score,
   metrics.delivery_confidence_score, metrics.authenticity_score,
   metrics.verbal_engagement_score, metrics.visual_verbal_harmony_score}

\* C17: for segments of non-negative duration with confidences in [0, 1]
\* each of the six summary scores of compute_speech_analysis_metrics lies in
\* [0, 1].
C17_ScoresBounded ==
  (/\ op = "compute_speech_analysis_metrics"
   /\ \A i \in 1..Len(input.speech_segments) :
        /\ input.speech_segments[i].end >= input.speech_segments[i].start
        /\ input.speech_segments[i].confidence \in 0..10)
    => \A score \in SummaryScores(out.val) : 0 <= score /\ score <= 100

----------------------------------------------------------------------------
(* extract_real_ml_data: the dispatch on the purpose name *)

\* the purposes with a branch of their own
HandledPurposes ==
  {"visual_overlay_analysis", "creative_density", "emotional_journey", "person_framing",
   "scene_pacing", "speech_analysis", "metadata_analysis"}

\* the object a metric engine returned, as a value of the context
Metrics(m) == [t |-> "metrics", m |-> m]

\* context_data['_validation']
ExtractionBlock(prompt_name) ==
  JDict(<<Entry(N("extracted_at"), Now),
          Entry(N("prompt_type"), JStr(<<prompt_name>>)),
          Entry(N("data_source"), JStr(<<"unified_analysis">>))>>)

\* the context every purpose starts from; static_metadata is a dict and its
\* caption a string in the documents of the specification
BaseContext(unified_data, prompt_name) ==
  <<Entry(N("duration"), GetOr(unified_data, N("duration_seconds"), JNum(0))),
    Entry(N("caption"),
          Slice(GetOr(GetOr(unified_data, N("static_metadata"), JDict(<<>>)).d,
                      N("captionText"), JStr(<<>>)), CaptionLimit)),
    Entry(N("engagement_stats"),
          GetOr(GetOr(unified_data, N("static_metadata"), JDict(<<>>)).d, N("stats"),
                JDict(<<>>))),
    Entry(N("_validation"), ExtractionBlock(prompt_name))>>

\* the static metadata of the 'metadata_analysis' branch
StaticMetadataBlock(static_metadata) ==
  JDict(<<Entry(N("captionText"), GetOr(static_metadata, N("captionText"), JStr(<<>>))),
          Entry(N("hashtags"), GetOr(static_metadata, N("hashtags"), JList(<<>>))),
          Entry(N("stats"), GetOr(static_metadata, N("stats"), JDict(<<>>))),
          Entry(N("createTime"), GetOr(static_metadata, N("createTime"), JStr(<<>>))),
          Entry(N("duration"), GetOr(static_metadata, N("duration"), JNum(0))),
          Entry(N("musicMeta"), GetOr(static_metadata, N("musicMeta"), JDict(<<>>)))>>
        \o (IF HasKey(static_metadata, N("collectCount"))
            THEN <<Entry(N("collectCount"), Get(static_metadata, N("collectCount")))>>
            ELSE <<>>))

\* the 'scene_pacing' branch: the metrics and the raw timelines it names
ScenePacingContext(context_data, timelines, duration) ==
  context_data
    \o <<Entry(N("scene_pacing_metrics"), Metrics(PacingOf(timelines, duration).val)),
         Entry(N("scene_timeline"), GetOr(timelines, N("sceneChangeTimeline"), JDict(<<>>))),
         Entry(N("object_timeline"), GetOr(timelines, N("objectTimeline"), JDict(<<>>))),
         Entry(N("camera_distance_timeline"),
               GetOr(timelines, N("cameraDistanceTimeline"), JDict(<<>>)))>>

\* the else branch of the dispatch
OtherPromptContext(context_data, unified_data, timelines) ==
  context_data
    \o <<Entry(N("timelines"), timelines),
         Entry(N("metadata_summary"), GetOr(unified_data, N("metadata_summary"), JDict(<<>>)))>>

\* the branches of the purposes the specification draws; the engines of
\* 'visual_overlay_analysis', 'emotional_journey', 'person_framing' and
\* 'speech_analysis' are not called here
PurposeContext(context_data, unified_data, timelines, prompt_name) ==
  IF prompt_name = "creative_density"
  THEN context_data
         \o <<Entry(N("density_analysis"),
                    Metrics(compute_creative_density_analysis(
                              timelines.d,
                              GetOr(unified_data, N("duration_seconds"), JNum(30)).n)))>>
  ELSE IF prompt_name = "scene_pacing"
  THEN ScenePacingContext(context_data, timelines.d,
                          GetOr(unified_data, N("duration_seconds"), JNum(30)).n)
  ELSE IF prompt_name = "metadata_analysis"
  THEN context_data
         \o <<Entry(N("static_metadata"),
                    StaticMetadataBlock(GetOr(unified_data, N("static_metadata"),
                                              JDict(<<>>)).d))>>
  ELSE OtherPromptContext(context_data, unified_data, timelines)

extract_real_ml_data(unified_data, prompt_name) ==
  Return(PurposeContext(BaseContext(unified_data, prompt_name), unified_data,
                        GetOr(unified_data, N("timelines"), JDict(<<>>)), prompt_name))

----------------------------------------------------------------------------
(* The two extractors on valid documents and purposes with and without a   *)
(* branch of their own                                                     *)

MaxDispatchTimeline == 2

D_texts == JDict(<<Entry(N("texts"), JList(<<JStr(<<"hi">>)>>))>>)
D_insights == JDict(<<Entry(N("summary"), JStr(<<"ok">>))>>)

DispatchTimelines ==
  {JDict([i \in 1..Len(expected_timelines) |->
            Entry(expected_timelines[i],
                  IF expected_timelines[i] = N("objectTimeline") THEN JDict(objects)
                  ELSE IF expected_timelines[i] = N("textOverlayTimeline") THEN JDict(texts)
                  ELSE JDict(<<>>))]) :
     objects \in DictsOver({Entry(K_0_1s, D_objects), Entry(K_5_6s, D_objects)},
                           MaxDispatchTimeline),
     texts \in DictsOver({Entry(K_0_1s, D_texts)}, MaxDispatchTimeline)}

DispatchDocuments ==
  {<<Entry(N("video_id"), JStr(<<"v", "1">>)),
     Entry(N("duration_seconds"), JNum(10)),
     Entry(N("static_metadata"),
           JDict(<<Entry(N("captionText"), JStr(<<"H", "i">>)),
                   Entry(N("stats"), JDict(<<Entry(N("views"), JNum(5))>>))>>)),
     Entry(N("timelines"), timelines)>> \o insights :
     timelines \in DispatchTimelines,
     insights \in {<<>>, <<Entry(N("insights"), D_insights)>>}}

DispatchPurposes ==
  {"creative_density", "scene_pacing", "metadata_analysis", "hook_analysis",
   "engagement_triggers", "summary"}

InitDispatch ==
  /\ input \in [doc : DispatchDocuments, prompt_name : DispatchPurposes, strict : BOOLEAN,
                max_timeline_entries : {DefaultMaxTimelineEntries}]
  /\ op = "input"
  /\ out = Return(<<>>)

ExtractRealMlData ==
  /\ op = "input"
  /\ op' = "extract_real_ml_data"
  /\ out' = extract_real_ml_data(input.doc, input.prompt_name)
  /\ UNCHANGED input

NextDispatch == ExtractRealMlData \/ ExtractSafeContextData

SpecDispatch == InitDispatch /\ [][NextDispatch]_vars

\* the value holds the record: it is the record or one of its parts holds it
RECURSIVE HoldsRecord(_, _)
HoldsRecord(value, record) ==
  \/ value = record
  \/ value.t = "dict" /\ \E i \in 1..Len(value.d) : HoldsRecord(value.d[i].v, record)
  \/ value.t = "list" /\ \E i \in 1..Len(value.items) : HoldsRecord(value.items[i], record)

\* the records of the timelines of the document
RawRecords(unified_data) ==
  UNION {{timeline.v.d[j].v : j \in 1..Len(timeline.v.d)} :
           timeline \in {Get(unified_data, N("timelines")).d[i] :
                           i \in 1..Len(Get(unified_data, N("timelines")).d)}}

\* the purposes with a branch of their own in extract_safe_context_data
ValidatorPurposes == {"hook_analysis", "creative_density", "engagement_triggers"}

\* what a context may carry besides the summary of the timelines
ScalarKeys == {N("duration"), N("caption"), N("engagement_stats"), N("_validation")}

\* C18: for a purpose without a branch of its own an extractor returns,
\* besides the scalars and the provenance block, only the per-timeline
\* summary of entry counts (and an 'insights' block), and no record of a
\* timeline of the document is part of the context.
C18_FallbackCountsOnly ==
  (\/ op = "extract_real_ml_data" /\ input.prompt_name \notin HandledPurposes
   \/ op = "extract_safe_context_data" /\ input.prompt_name \notin ValidatorPurposes)
    => /\ ~Raised(out)
       /\ KeysOf(out.val) \subseteq ScalarKeys \cup {N("timeline_summary"), N("insights")}
       /\ \A record \in RawRecords(input.doc) : ~HoldsRecord(JDict(out.val), record)

----------------------------------------------------------------------------
(* Bucketing and the dual-peak tag of the density engine (SpecDensity) *)

\* the entries of the one timeline of the input
DensityEntries == input.timelines[1].v.d

\* the element count of an entry: total_objects on the object timeline, 1 on
\* the text timeline (the entries carry no 'texts')
EntryCount(entry) ==
  IF input.timelines[1].k = N("objectTimeline")
  THEN Get(entry.v.d, N("total_objects")).n ELSE 1

\* the elements of the entries whose interval starts at one of the seconds
ElementsAt(seconds) ==
  SumSeq([i \in 1..Len(DensityEntries) |->
            IF /\ ~parse_timestamp_to_seconds(DensityEntries[i].k).none
               /\ parse_timestamp_to_seconds(DensityEntries[i].k).val \in seconds
            THEN EntryCount(DensityEntries[i]) ELSE 0])

\* C19: the count array has one entry per second of the duration and holds
\* at each second the elements of the entries that start there; an entry
\* whose start is at or after the duration, or negative, adds nothing to the
\* total and leaves empty_seconds, counted over the seconds of the duration,
\* as it is.
C19_DensityBucketing ==
  op = "compute_creative_density_analysis" =>
    LET within == 0..(input.duration_seconds - 1)
    IN /\ Len(out.val.density_per_second) = input.duration_seconds
       /\ \A second \in within : out.val.density_per_second[second + 1] = ElementsAt({second})
       /\ out.val.total_creative_elements = ElementsAt(within)
       /\ out.val.empty_seconds = Cardinality({second \in within : ElementsAt({second}) = 0})

\* the seconds whose count is above 1.5 times the mean of the counts
AboveThreshold(counts) ==
  {second \in 0..(Len(counts) - 1) :
     2 * counts[second + 1] * Len(counts) > 3 * SumSeq(counts)}

\* C20: the result carries 'dual_peak_structure' exactly when two seconds
\* whose count is above 1.5 times the mean are at least 8 seconds apart,
\* whether or not another such second lies between them.
C20_DualPeak ==
  op = "compute_creative_density_analysis" =>
    (out.val.dual_peak_structure <=>
       \E a, b \in AboveThreshold(out.val.density_per_second) : b - a >= 8)

----------------------------------------------------------------------------
(* compute_person_framing_metrics: the ratios, the camera-distance counts, *)
(* the absence scan, the pattern tags and the overrides taken from         *)
(* enhanced_human_data. Ratios are kept as pairs of integers until they    *)
(* are rounded; supplied ratios are counted in hundredths.                 *)

\* the distance labels, one token per character
Label(name) ==
  CASE name = "close" -> <<"c", "l", "o", "s", "e">>
    [] name = "medium" -> <<"m", "e", "d", "i", "u", "m">>
    [] name = "far" -> <<"f", "a", "r">>
    [] name = "unknown" -> <<"u", "n", "k", "n", "o", "w", "n">>

\* distance_data.get('distance', 'medium').lower()
FramingDistance(distance_data) ==
  Lower(GetOr(distance_data.d, N("distance"), JStr(Label("medium"))).s)

\* the distances in the order of the loop over sorted keys
FramingDistances(camera_distance_timeline) ==
  [i \in 1..Len(camera_distance_timeline) |->
     FramingDistance(Get(camera_distance_timeline,
                         SortedKeys(camera_distance_timeline)[i]))]

\* distance_counts, as a function of the three counted labels
DistanceCounts(distances) ==
  [label \in {"close", "medium", "far"} |->
     Cardinality({j \in 1..Len(distances) : distances[j] = Label(label)})]

\* max(distance_counts, key=distance_counts.get): the first label of the
\* dict's order close, medium, far that has the largest count; 'medium'
\* when nothing was counted
DominantShotType(distance_counts) ==
  IF distance_counts["close"] + distance_counts["medium"] + distance_counts["far"] = 0
  THEN Label("medium")
  ELSE IF distance_counts["close"] >= distance_counts["medium"]
     /\ distance_counts["close"] >= distance_counts["far"] THEN Label("close")
  ELSE IF distance_counts["medium"] >= distance_counts["far"] THEN Label("medium")
  ELSE Label("far")

\* the distance of the first sorted key whose start second is below 3
IntroShotType(camera_distance_timeline) ==
  LET keys == SortedKeys(camera_distance_timeline)
      early == {i \in 1..Len(keys) :
                  /\ ~parse_timestamp_to_seconds(keys[i]).none
                  /\ parse_timestamp_to_seconds(keys[i]).val < 3}
  IN IF early = {} THEN Label("unknown")
     ELSE FramingDistances(camera_distance_timeline)[CHOOSE i \in early : \A j \in early : i <= j]

\* expression_timeline[timestamp].get('expression') is truthy
HasExpression(data) == Truthy(GetOr(data.d, N("expression"), JNone))

\* 'person' in objects and objects['person'] > 0
HasPerson(data) ==
  LET objects == GetOr(data.d, N("objects"), JDict(<<>>))
  IN HasKey(objects.d, N("person")) /\ Get(objects.d, N("person")).n > 0

FaceFrames(expression_timeline) ==
  Cardinality({j \in 1..Len(expression_timeline) : HasExpression(expression_timeline[j].v)})

PersonFrames(object_timeline) ==
  Cardinality({j \in 1..Len(object_timeline) : HasPerson(object_timeline[j].v)})

\* len(expression_timeline) if expression_timeline else seconds
TotalFrames(expression_timeline, seconds) ==
  IF expression_timeline # <<>> THEN Len(expression_timeline) ELSE seconds

\* a quotient kept exact: frames / total_frames if total_frames > least else 0
Quotient(frames, total_frames, least) ==
  IF total_frames > least THEN [num |-> frames, den |-> total_frames]
  ELSE [num |-> 0, den |-> 1]

\* quotient > tenths / 10 and quotient < tenths / 10
Above(q, tenths) == 10 * q.num > tenths * q.den
Below(q, tenths) == 10 * q.num < tenths * q.den

\* the person is present in second i
PersonPresent(expression_timeline, object_timeline, i) ==
  LET timestamp == IntervalKey(i, i + 1)
  IN \/ /\ HasKey(expression_timeline, timestamp)
        /\ HasExpression(Get(expression_timeline, timestamp))
     \/ /\ HasKey(object_timeline, timestamp)
        /\ HasPerson(Get(object_timeline, timestamp))

\* the loop over range(seconds) from second i on; acc holds absence_segments,
\* current_absence_start and subject_absence_count
RECURSIVE AbsenceScan(_, _, _, _, _)
AbsenceScan(acc, i, seconds, expression_timeline, object_timeline) ==
  IF i >= seconds THEN acc
  ELSE AbsenceScan(
         IF ~PersonPresent(expression_timeline, object_timeline, i)
         THEN [acc EXCEPT !.subject_absence_count = @ + 1,
                          !.current_absence_start =
                             IF @.none THEN [none |-> FALSE, val |-> i] ELSE @]
         ELSE IF ~acc.current_absence_start.none
              THEN [acc EXCEPT !.absence_segments =
                                  Append(@, [start |-> acc.current_absence_start.val,
                                             end |-> i,
                                             duration |-> i - acc.current_absence_start.val]),
                               !.current_absence_start = NoSecond]
              ELSE acc,
         i + 1, seconds, expression_timeline, object_timeline)

\* absence_segments after the final segment is closed
AbsenceSegments(scan, seconds) ==
  IF ~scan.current_absence_start.none
  THEN Append(scan.absence_segments,
              [start |-> scan.current_absence_start.val,
               end |-> seconds,
               duration |-> seconds - scan.current_absence_start.val])
  ELSE scan.absence_segments

LongestAbsenceDuration(absence_segments) ==
  IF absence_segments = <<>> THEN 0
  ELSE LET j == CHOOSE j \in 1..Len(absence_segments) :
                  \A k \in 1..Len(absence_segments) :
                    absence_segments[k].duration <= absence_segments[j].duration
       IN absence_segments[j].duration

\* person_framing_pattern_tags, from the locally computed quotients
PatternTags(face, person, volatility, absence_count, distance_counts) ==
  (IF Above(face, 7) THEN <<"strong_creator_presence">>
   ELSE IF Below(face, 3) THEN <<"minimal_creator_presence">> ELSE <<>>)
  \o (IF absence_count > 5 THEN <<"cutaway_heavy">>
      ELSE IF absence_count = 0 THEN <<"continuous_presence">> ELSE <<>>)
  \o (IF Below(volatility, 2) THEN <<"stable_framing">>
      ELSE IF Above(volatility, 6) THEN <<"dynamic_framing">> ELSE <<>>)
  \o (IF Above(face, 6) /\ distance_counts["close"] > distance_counts["far"]
      THEN <<"talking_head_style">>
      ELSE IF Above(person, 7) /\ distance_counts["far"] > distance_counts["close"]
           THEN <<"full_body_content">> ELSE <<>>)

\* round(v / total_distance_frames, 2) per label, or zeros
ShotTypeDistribution(distance_counts) ==
  LET total == distance_counts["close"] + distance_counts["medium"] + distance_counts["far"]
  IN [label \in {"close", "medium", "far"} |->
        IF total > 0 THEN Round2(distance_counts[label], total) ELSE 0]

\* round(x, 2) in hundredths of a ratio that enhanced_human_data may supply
\* (a float of one decimal digit) and is computed as the quotient q otherwise
Supplied(enhanced_human_data, name, q) ==
  IF HasKey(enhanced_human_data, N(name))
  THEN 10 * Get(enhanced_human_data, N(name)).tenths
  ELSE Round2(q.num, q.den)

\* a field that enhanced_human_data replaces as it is
Replaced(enhanced_human_data, name, computed) ==
  IF HasKey(enhanced_human_data, N(name)) THEN Get(enhanced_human_data, N(name))
  ELSE computed

\* the metrics built from the counts; the descriptive fields derived from
\* them afterwards (temporal_evolution, video_intent, intent_alignment_risk,
\* gaze_steadiness) are not part of the record
FramingMetrics(face, person, volatility, distance_counts, intro_shot_type, absence_segments, subject_absence_count, enhanced_human_data) ==
  [face_screen_time_ratio |-> Supplied(enhanced_human_data, "face_screen_time_ratio", face),
   person_screen_time_ratio |->
     Supplied(enhanced_human_data, "person_screen_time_ratio", person),
   framing_volatility |-> Supplied(enhanced_human_data, "framing_volatility", volatility),
   avg_camera_distance |->
     Replaced(enhanced_human_data, "avg_camera_distance",
              JStr(DominantShotType(distance_counts))),
   dominant_shot_type |->
     Replaced(enhanced_human_data, "dominant_shot_type",
              JStr(DominantShotType(distance_counts))),
   intro_shot_type |->
     Replaced(enhanced_human_data, "intro_shot_type", JStr(intro_shot_type)),
   subject_absence_count |->
     Replaced(enhanced_human_data, "subject_absence_count", JNum(subject_absence_count)),
   person_framing_pattern_tags |->
     PatternTags(face, person, volatility, Len(absence_segments), distance_counts),
   shot_type_distribution |-> ShotTypeDistribution(distance_counts),
   longest_absence_duration |-> LongestAbsenceDuration(absence_segments)]

FramingAfterScan(expression_timeline, object_timeline, camera_distance_timeline, enhanced_human_data, seconds, scan) ==
  FramingMetrics(
    Quotient(FaceFrames(expression_timeline), TotalFrames(expression_timeline, seconds), 0),
    Quotient(PersonFrames(object_timeline), TotalFrames(expression_timeline, seconds), 0),
    Quotient(Changes(FramingDistances(camera_distance_timeline)),
             TotalFrames(expression_timeline, seconds), 1),
    DistanceCounts(FramingDistances(camera_distance_timeline)),
    IntroShotType(camera_distance_timeline),
    AbsenceSegments(scan, seconds), scan.subject_absence_count, enhanced_human_data)

\* person_timeline is unused; duration is a whole number of seconds
compute_person_framing_metrics(expression_timeline, object_timeline, camera_distance_timeline, enhanced_human_data, duration) ==
  FramingAfterScan(expression_timeline, object_timeline, camera_distance_timeline,
                   enhanced_human_data, duration + 1,
                   AbsenceScan([absence_segments |-> <<>>,
                                current_absence_start |-> NoSecond,
                                subject_absence_count |-> 0],
                               0, duration + 1, expression_timeline, object_timeline))

----------------------------------------------------------------------------
(* The framing engine on expression, object and camera-distance timelines *)

MaxFramingEntries == 3   \* longest camera-distance timeline

K_11_12s == <<"1", "1", "-", "1", "2", "s">>

FramingSeconds == {0, 2}
FramingObjectSeconds == {0, 1, 3}
FramingDurations == {3}

\* the entries of the seconds of S in ascending order, one value each
OrderedTimelines(seconds, values) ==
  UNION {{[i \in 1..Cardinality(S) |->
             Entry(IntervalKey(Ascending(S)[i], Ascending(S)[i] + 1), vs[i])] :
            vs \in [1..Cardinality(S) -> values]} : S \in SUBSET seconds}

FramingExpressionTimelines ==
  OrderedTimelines(FramingSeconds, {Expression("happy"), JDict(<<>>)})

FramingObjectTimelines == OrderedTimelines(FramingObjectSeconds, {D_objects})

Distance(name) == JDict(<<Entry(N("distance"), JStr(Label(name)))>>)

\* camera-distance timelines in every insertion order
CameraDistanceTimelines ==
  DictsUpTo({K_2_3s, K_10_11s, K_11_12s}, {Distance("close"), Distance("far")},
            MaxFramingEntries)

\* enhanced_human_data: absent, or supplying ratios that differ from the
\* computed ones
EnhancedHumanData ==
  {<<>>,
   <<Entry(N("face_screen_time_ratio"), JFloat(9))>>,
   <<Entry(N("face_screen_time_ratio"), JFloat(1)),
     Entry(N("framing_volatility"), JFloat(9))>>,
   <<Entry(N("framing_volatility"), JFloat(1))>>}

\* no cut, or one cut at the start second of a camera-distance key
FramingSceneTimelines == {<<>>, <<Entry(K_2_3s, SceneChange)>>}

InitFraming ==
  /\ input \in [expression_timeline : FramingExpressionTimelines,
                object_timeline : FramingObjectTimelines,
                camera_distance_timeline : CameraDistanceTimelines,
                enhanced_human_data : EnhancedHumanData,
                scene_timeline : FramingSceneTimelines,
                duration : FramingDurations]
  /\ op = "input"
  /\ out = Return(JNone)

ComputePersonFramingMetrics ==
  /\ op = "input"
  /\ op' = "compute_person_framing_metrics"
  /\ out' = Return(compute_person_framing_metrics(
                     input.expression_timeline, input.object_timeline,
                     input.camera_distance_timeline, input.enhanced_human_data,
                     input.duration))
  /\ UNCHANGED input

\* the pacing engine on the scene changes and the camera distances
ComputeScenePacingWithCamera ==
  /\ op = "input"
  /\ op' = "compute_scene_pacing_metrics"
  /\ out' = compute_scene_pacing_metrics(input.scene_timeline, input.duration,
                                         input.camera_distance_timeline)
  /\ UNCHANGED input

NextFraming == ComputePersonFramingMetrics \/ ComputeScenePacingWithCamera

SpecFraming == InitFraming /\ [][NextFraming]_vars

\* the distance labels of the input's camera-distance timeline in ascending
\* order of the start second of their keys
DistancesByStart ==
  LET tl == input.camera_distance_timeline
      start(i) == parse_timestamp_to_seconds(tl[i].k).val
  IN [i \in 1..Len(tl) |->
        Get(tl[CHOOSE e \in 1..Len(tl) :
                 Cardinality({j \in 1..Len(tl) : start(j) < start(e)}) = i - 1].v.d,
            N("distance")).s]

\* C21: the framing engine's framing_volatility is the number of distance
\* changes between camera-distance entries in ascending numeric start order
\* divided by the number of frames, and the pacing engine's shot_type_changes
\* is that number of changes, for every key order and every digit count.
C21_NumericStartOrder ==
  /\ (/\ op = "compute_person_framing_metrics"
      /\ ~HasKey(input.enhanced_human_data, N("framing_volatility"))
      /\ TotalFrames(input.expression_timeline, input.duration + 1) > 1)
       => out.val.framing_volatility =
            Round2(Changes(DistancesByStart),
                   TotalFrames(input.expression_timeline, input.duration + 1))
  /\ (op = "compute_scene_pacing_metrics" /\ ~Raised(out))
       => out.val.shot_type_changes = Changes(DistancesByStart)

\* the tag is in the returned person_framing_pattern_tags
Tagged(tag) ==
  \E i \in 1..Len(out.val.person_framing_pattern_tags) :
    out.val.person_framing_pattern_tags[i] = tag

\* the value (in tenths) enhanced_human_data supplies under the name
SuppliedTenths(name) == Get(input.enhanced_human_data, N(name)).tenths

\* C22: a face_screen_time_ratio or framing_volatility supplied by
\* enhanced_human_data is the value the framing engine returns, and the
\* returned tags are those of the supplied value: strong_creator_presence
\* above 0.7, minimal_creator_presence below 0.3, stable_framing below 0.2,
\* dynamic_framing above 0.6.
C22_ExternalPrecedence ==
  op = "compute_person_framing_metrics" =>
    /\ HasKey(input.enhanced_human_data, N("face_screen_time_ratio")) =>
         /\ out.val.face_screen_time_ratio = 10 * SuppliedTenths("face_screen_time_ratio")
         /\ Tagged("strong_creator_presence") <=> SuppliedTenths("face_screen_time_ratio") > 7
         /\ Tagged("minimal_creator_presence") <=> SuppliedTenths("face_screen_time_ratio") < 3
    /\ HasKey(input.enhanced_human_data, N("framing_volatility")) =>
         /\ out.val.framing_volatility = 10 * SuppliedTenths("framing_volatility")
         /\ Tagged("stable_framing") <=> SuppliedTenths("framing_volatility") < 2
         /\ Tagged("dynamic_framing") <=> SuppliedTenths("framing_volatility") > 6

\* the start seconds of the input's gesture-timeline entries
GestureStarts ==
  LET tl == GetOr(input.timelines, N("gestureTimeline"), JDict(<<>>)).d
  IN {parse_timestamp_to_seconds(tl[i].k).val : i \in 1..Len(tl)}

\* the speech segments during which some gesture entry starts
SegmentsWithGesture ==
  {i \in 1..Len(input.speech_segments) :
     \E g \in GestureStarts :
       input.speech_segments[i].start <= g /\ g <= input.speech_segments[i].end}

\* C23: gesture_sync_ratio is the fraction of the speech segments during
\* which at least one gesture-timeline entry starts (start second within
\* [segment.start, segment.end]), a gesture starting at second 0 included.
C23_GestureSyncRatio ==
  (op = "compute_speech_analysis_metrics" /\ input.speech_segments # <<>>) =>
    out.val.gesture_sync_ratio =
      Round2(Cardinality(SegmentsWithGesture), Len(input.speech_segments))

----------------------------------------------------------------------------
(* extract_real_ml_data of run_video_prompts_validated.py: the context is  *)
(* built from the frames of unified_data['timeline']; validate_ml_data     *)
(* only prints its findings                                                *)

\* frame_data[name] is present and truthy
Detected(frame_data, name) ==
  HasKey(frame_data.d, N(name)) /\ Truthy(Get(frame_data.d, N(name)))

\* real_data of a frame
RealData(frame_data) ==
  (IF Detected(frame_data, "object_detections")
   THEN <<Entry(N("objects"), Get(frame_data.d, N("object_detections")))>> ELSE <<>>)
  \o (IF Detected(frame_data, "text_detections")
      THEN <<Entry(N("texts"), Get(frame_data.d, N("text_detections")))>> ELSE <<>>)
  \o (IF Detected(frame_data, "poses")
      THEN <<Entry(N("poses"), Get(frame_data.d, N("poses")))>> ELSE <<>>)

\* first_5_seconds: the loop over timeline.items(); a key whose start is
\* not a number is skipped by the bare except
RECURSIVE FirstFiveSeconds(_)
FirstFiveSeconds(timeline) ==
  IF timeline = <<>> THEN <<>>
  ELSE LET start == Split(timeline[1].k, "-")[1]
       IN (IF PyFloatOk(start) /\ PyFloat(start) <= 5 /\ RealData(timeline[1].v) # <<>>
           THEN <<Entry(timeline[1].k, JDict(RealData(timeline[1].v)))>> ELSE <<>>)
          \o FirstFiveSeconds(Tail(timeline))

\* the texts of a frame kept by the 'cta_alignment' branch
CtaTexts(text_detections) ==
  LET kept == SelectSeq(text_detections,
                        LAMBDA item : IsDict(item) /\ HasKey(item.d, N("text")))
  IN [i \in 1..Len(kept) |->
        JDict(<<Entry(N("text"), Get(kept[i].d, N("text"))),
                Entry(N("confidence"), GetOr(kept[i].d, N("confidence"), JNum(0))),
                Entry(N("category"), GetOr(kept[i].d, N("category"), JStr(<<"unknown">>)))>>)]

\* text_timeline and speech_timeline of the 'cta_alignment' branch
RECURSIVE CtaTextTimeline(_)
CtaTextTimeline(timeline) ==
  IF timeline = <<>> THEN <<>>
  ELSE (IF Detected(timeline[1].v, "text_detections")
           /\ CtaTexts(Get(timeline[1].v.d, N("text_detections")).items) # <<>>
        THEN <<Entry(timeline[1].k,
                     JList(CtaTexts(Get(timeline[1].v.d, N("text_detections")).items)))>>
        ELSE <<>>)
       \o CtaTextTimeline(Tail(timeline))

CtaSpeechTimeline(timeline) ==
  LET kept == SelectSeq(timeline, LAMBDA e : Detected(e.v, "speech"))
  IN [i \in 1..Len(kept) |-> Entry(kept[i].k, Get(kept[i].v.d, N("speech")))]

\* the frames f with a truthy f.get(name)
FrameCount(timeline, name) ==
  JNum(Cardinality({i \in 1..Len(timeline) : Detected(timeline[i].v, name)}))

FrameSummary(timeline) ==
  JDict(<<Entry(N("total_frames"), JNum(Len(timeline))),
          Entry(N("object_detection_frames"), FrameCount(timeline, "object_detections")),
          Entry(N("text_detection_frames"), FrameCount(timeline, "text_detections")),
          Entry(N("pose_detection_frames"), FrameCount(timeline, "poses")),
          Entry(N("speech_frames"), FrameCount(timeline, "speech"))>>)

validated_extract_real_ml_data(unified_data, prompt_name) ==
  LET timeline == GetOr(unified_data, N("timeline"), JDict(<<>>)).d
  IN Return(BaseContext(unified_data, prompt_name)
            \o (IF prompt_name = "hook_analysis"
                THEN <<Entry(N("first_5_seconds"), JDict(FirstFiveSeconds(timeline)))>>
                ELSE IF prompt_name = "cta_alignment"
                THEN <<Entry(N("text_timeline"), JDict(CtaTextTimeline(timeline))),
                       Entry(N("speech_timeline"), JDict(CtaSpeechTimeline(timeline)))>>
                ELSE <<Entry(N("timeline_summary"), FrameSummary(timeline))>>))

----------------------------------------------------------------------------
(* The three extractors on documents whose timelines have entries before,  *)
(* at and after second 5 and an entry with a malformed key                 *)

MaxHookTimeline == 3

HookKeys == {K_0_1s, K_3_4s, K_5_6s, K_9_10s, K_abc_def}

D_frame == JDict(<<Entry(N("object_detections"), JList(<<JStr(<<"cup">>)>>))>>)

HookTimelines ==
  {JDict([i \in 1..Len(expected_timelines) |->
            Entry(expected_timelines[i],
                  IF expected_timelines[i] = N("objectTimeline") THEN JDict(objects)
                  ELSE IF expected_timelines[i] = N("textOverlayTimeline") THEN JDict(texts)
                  ELSE JDict(<<>>))]) :
     objects \in DictsUpTo(HookKeys, {D_objects}, MaxHookTimeline),
     texts \in {<<>>, <<Entry(K_5_6s, D_texts)>>,
                <<Entry(K_0_1s, D_texts), Entry(K_9_10s, D_texts)>>}}

\* the frames read by the extractor of run_video_prompts_validated.py
HookFrames == DictsUpTo(HookKeys, {D_frame}, 1)

HookDocuments ==
  {<<Entry(N("video_id"), JStr(<<"v", "1">>)),
     Entry(N("duration_seconds"), JNum(10)),
     Entry(N("static_metadata"),
           JDict(<<Entry(N("captionText"), JStr(<<"H", "i">>)),
                   Entry(N("stats"), JDict(<<Entry(N("views"), JNum(5))>>))>>)),
     Entry(N("timelines"), timelines),
     Entry(N("timeline"), JDict(frames))>> :
     timelines \in HookTimelines, frames \in HookFrames}

HookPurposes == {"hook_analysis", "cta_alignment", "summary"}

InitHook ==
  /\ input \in [doc : HookDocuments, prompt_name : HookPurposes, strict : BOOLEAN,
                max_timeline_entries : {DefaultMaxTimelineEntries}]
  /\ op = "input"
  /\ out = Return(<<>>)

ValidatedExtractRealMlData ==
  /\ op = "input"
  /\ op' = "validated_extract_real_ml_data"
  /\ out' = validated_extract_real_ml_data(input.doc, input.prompt_name)
  /\ UNCHANGED input

NextHook == ExtractSafeContextData \/ ExtractRealMlData \/ ValidatedExtractRealMlData

SpecHook == InitHook /\ [][NextHook]_vars

\* some dict inside the value has the key
RECURSIVE HoldsKey(_, _)
HoldsKey(value, key) ==
  \/ value.t = "dict" /\ \E i \in 1..Len(value.d) :
                           value.d[i].k = key \/ HoldsKey(value.d[i].v, key)
  \/ value.t = "list" /\ \E i \in 1..Len(value.items) : HoldsKey(value.items[i], key)

\* some dict inside the value has, under the name of the timeline kind, a
\* dict with the key
RECURSIVE HoldsEntry(_, _, _)
HoldsEntry(value, kind, key) ==
  \/ value.t = "dict" /\ \E i \in 1..Len(value.d) :
       \/ value.d[i].k = kind /\ IsDict(value.d[i].v) /\ HasKey(value.d[i].v.d, key)
       \/ HoldsEntry(value.d[i].v, kind, key)
  \/ value.t = "list" /\ \E i \in 1..Len(value.items) : HoldsEntry(value.items[i], kind, key)

\* the key is well formed and its interval starts before second 5
StartsBeforeFive(key) ==
  /\ ~parse_timestamp_to_seconds(key).none
  /\ parse_timestamp_to_seconds(key).val < 5

\* the context returned for the input holds, of every timeline kind (of the
\* frames, for the extractor that reads them), exactly the entries starting
\* before second 5
FirstSecondsOnly ==
  IF op = "validated_extract_real_ml_data"
  THEN \A key \in KeysOf(Get(input.doc, N("timeline")).d) :
         HoldsKey(JDict(out.val), key) <=> StartsBeforeFive(key)
  ELSE \A i \in 1..Len(DocTimelines) :
         \A key \in KeysOf(DocTimelines[i].v.d) :
           HoldsEntry(JDict(out.val), DocTimelines[i].k, key) <=> StartsBeforeFive(key)

\* C24: for purpose 'hook_analysis' each of the three extractors returns,
\* of every timeline kind, exactly the entries whose interval starts before
\* second 5; an entry starting at second 5 or later and an entry with a
\* malformed key are not returned.
C24_FirstSecondsFilter ==
  (op # "input" /\ input.prompt_name = "hook_analysis" /\ ~Raised(out)) => FirstSecondsOnly

\* the seconds 0..n-1 scanned for the input, n = int(duration) + 1, in which
\* the person is not present
AbsentSeconds ==
  {i \in 0..input.duration :
     ~PersonPresent(input.expression_timeline, input.object_timeline, i)}

\* the maximal runs [a, b) of absent seconds
AbsenceRuns ==
  {r \in (0..input.duration) \X (1..(input.duration + 1)) :
     /\ r[1] < r[2]
     /\ \A i \in r[1]..(r[2] - 1) : i \in AbsentSeconds
     /\ (r[1] - 1) \notin AbsentSeconds
     /\ r[2] \notin AbsentSeconds}

\* the segments the scan of the framing engine accumulates for the input
ScannedSegments ==
  AbsenceSegments(AbsenceScan([absence_segments |-> <<>>,
                               current_absence_start |-> NoSecond,
                               subject_absence_count |-> 0],
                              0, input.duration + 1, input.expression_timeline,
                              input.object_timeline),
                  input.duration + 1)

\* the segments are the maximal runs of absent seconds, in time order, with
\* duration = end - start
SegmentsAreRuns ==
  /\ {<<ScannedSegments[j].start, ScannedSegments[j].end>> :
        j \in 1..Len(ScannedSegments)} = AbsenceRuns
  /\ \A j \in 1..Len(ScannedSegments) :
       /\ ScannedSegments[j].duration = ScannedSegments[j].end - ScannedSegments[j].start
       /\ j > 1 => ScannedSegments[j - 1].end < ScannedSegments[j].start

\* longest_absence_duration is the longest run, 0 without a run
LongestIsMaximum ==
  /\ \A r \in AbsenceRuns : r[2] - r[1] <= out.val.longest_absence_duration
  /\ IF AbsenceRuns = {} THEN out.val.longest_absence_duration = 0
     ELSE \E r \in AbsenceRuns : r[2] - r[1] = out.val.longest_absence_duration

\* C25: the framing engine's absence segments are the maximal, pairwise
\* disjoint runs of seconds without the person, duration = end - start; the
\* reported subject_absence_count is the number of segments and
\* longest_absence_duration is the longest segment's duration (0 if none).
C25_AbsenceSegments ==
  op = "compute_person_framing_metrics" =>
    /\ SegmentsAreRuns
    /\ LongestIsMaximum
    /\ out.val.subject_absence_count = JNum(Cardinality(AbsenceRuns))

\* no screen-time ratio is supplied by enhanced_human_data
NoRatioOverride ==
  /\ ~HasKey(input.enhanced_human_data, N("face_screen_time_ratio"))
  /\ ~HasKey(input.enhanced_human_data, N("person_screen_time_ratio"))

\* C30: without an override face_screen_time_ratio and
\* person_screen_time_ratio (in hundredths) are the counts of the entries
\* showing a face and a person divided by the number of sampled seconds, and
\* lie between 0 and 1, also when the object timeline has more entries than
\* the expression timeline.
C30_ProperFractions ==
  (op = "compute_person_framing_metrics" /\ NoRatioOverride) =>
    LET total == TotalFrames(input.expression_timeline, input.duration + 1)
    IN /\ out.val.face_screen_time_ratio =
            Round2(FaceFrames(input.expression_timeline), total)
       /\ out.val.person_screen_time_ratio =
            Round2(PersonFrames(input.object_timeline), total)
       /\ 0 <= out.val.face_screen_time_ratio /\ out.val.face_screen_time_ratio <= 100
       /\ 0 <= out.val.person_screen_time_ratio /\ out.val.person_screen_time_ratio <= 100

----------------------------------------------------------------------------
(* The emotional, pacing and speech engines on timelines and segment lists *)
(* in every insertion order                                                *)

MaxOrderEntries == 2

OrderExpressionTimelines ==
  DictsUpTo({K_0_1s, K_1_2s, K_5_6s}, {Expression("happy"), Expression("sad")},
            MaxOrderEntries)

OrderSceneTimelines == DictsUpTo({K_0_1s, K_2_3s, K_5_6s}, {SceneChange}, MaxOrderEntries)

OrderSegmentLists ==
  {speech_segments \in UNION {[1..n -> {Segment(0, 2, <<"hello", "world">>, 9),
                                        Segment(5, 8, <<"watch", "this", "amazing", "trick",
                                                        "now">>, 9),
                                        Segment(1, 2, <<"follow", "you", "um">>, 5)}] :
                                n \in 0..MaxOrderEntries} :
     \A i, j \in 1..Len(speech_segments) : i # j => speech_segments[i] # speech_segments[j]}

InitOrder ==
  /\ input \in {[transcript |-> TranscriptOf(speech_segments),
                 speech_segments |-> speech_segments,
                 timelines |-> <<Entry(N("expressionTimeline"), JDict(expressions)),
                                 Entry(N("sceneChangeTimeline"), JDict(scenes))>>,
                 duration_seconds |-> 10] :
                  speech_segments \in OrderSegmentLists,
                  expressions \in OrderExpressionTimelines,
                  scenes \in OrderSceneTimelines}
  /\ op = "input"
  /\ out = Return(JNone)

NextOrder ==
  \/ ComputeEmotionalMetrics
  \/ ComputeScenePacingMetrics
  \/ ComputeSpeechAnalysisMetrics

SpecOrder == InitOrder /\ [][NextOrder]_vars

\* the entries of a list in the order p, a permutation of its positions
Reordered(seq, p) == [i \in 1..Len(seq) |-> seq[p[i]]]

\* the input's timelines with the named timeline in the order p
TimelinesReordered(name, p) ==
  Put(input.timelines, N(name), JDict(Reordered(Get(input.timelines, N(name)).d, p)))

\* C26: the emotional, the pacing and the speech engine return the same
\* output for every insertion order of the keys of the expression timeline
\* and of the scene timeline and for every order of the speech-segment list.
C26_OrderIndependence ==
  /\ op = "compute_emotional_metrics" =>
       \A p \in Permutations(1..Len(Get(input.timelines, N("expressionTimeline")).d)) :
         EmotionalOf(TimelinesReordered("expressionTimeline", p), input.duration_seconds)
           = out
  /\ op = "compute_scene_pacing_metrics" =>
       \A p \in Permutations(1..Len(Get(input.timelines, N("sceneChangeTimeline")).d)) :
         PacingOf(TimelinesReordered("sceneChangeTimeline", p), input.duration_seconds)
           = out
  /\ op = "compute_speech_analysis_metrics" =>
       \A p \in Permutations(1..Len(input.speech_segments)) :
         Return(compute_speech_analysis_metrics(
                  input.transcript, Reordered(input.speech_segments, p),
                  GetOr(input.timelines, N("expressionTimeline"), JDict(<<>>)).d,
                  GetOr(input.timelines, N("gestureTimeline"), JDict(<<>>)).d,
                  input.duration_seconds)) = out


----------------------------------------------------------------------------
\* the number of sampling windows of the input whose intensity exceeds the
\* threshold
IntenseWindows ==
  Cardinality({w \in 1..Len(SampledValence) :
                 Intensity(SampledValence[w]) > IntensityThreshold})

\* C27: for every number of emotional peaks, three or more included, the
\* emotional engine completes and returns a peak_rhythm with a regularity
\* score, and every spacing it is computed from is taken between peaks in
\* time order, so none is negative.
C27_PeakRhythm ==
  op = "compute_emotional_metrics" =>
    /\ ~Raised(out)
    /\ out.val.peak_rhythm.peak_count = Min(IntenseWindows, 5)
    /\ out.val.peak_rhythm.regularity_score \in 0..100
    /\ \A i \in 1..(Len(out.val.emotional_peaks) - 1) :
         out.val.emotional_peaks[i + 1] - out.val.emotional_peaks[i] >= 0


----------------------------------------------------------------------------
\* C28: the pacing engine puts 'has_montage_sections' among its tags only
\* if it detected a montage segment, a run of three or more consecutive
\* shots each shorter than 1.5 s (montage_segments > 0).
C28_MontageTag ==
  (op = "compute_scene_pacing_metrics" /\ ~Raised(out)) =>
    (out.val.has_montage_sections => out.val.montage_segments > 0)


----------------------------------------------------------------------------
(* main, run_single_prompt and update_progress: the progress file of one   *)
(* video while the prompts of main are run one after the other.  input     *)
(* holds the files the run finds, op the position of the program, and      *)
(* out.val the progress file, the index of the prompt being run, the value *)
(* the last call returned and main's counter of successes; out.exc is the  *)
(* exception that ended the program, if any.                               *)

\* prompts of main, in the order they are run
prompts ==
  <<"creative_density", "emotional_journey", "speech_analysis", "visual_overlay_analysis",
    "metadata_analysis", "person_framing", "scene_pacing">>

\* unified_analysis/{video_id}.json is missing, is not valid JSON, or loads
UnifiedFiles == {"missing", "corrupt", "ok"}
\* insights/{video_id}/progress.json can be written, or every write raises
ProgressFiles == {"writable", "unwritable"}
\* what runner.run_claude_prompt does: a result with success true or false,
\* or an exception
RunnerResults == {"success", "error", "raises"}

\* update_progress: the status of the prompt is replaced in the file; an
\* exception while reading or writing is caught and leaves the file as it was
update_progress(progress, prompt_name, status) ==
  IF input.progress_file = "writable"
  THEN [progress EXCEPT ![prompt_name] = status]
  ELSE progress

\* the prompt the program is running
PromptName == prompts[out.val.index]

InitProgress ==
  /\ input \in [unified : UnifiedFiles, progress_file : ProgressFiles]
  /\ op = "input"
  /\ out = Return([progress |-> [p \in {prompts[i] : i \in 1..Len(prompts)} |-> "absent"],
                   index |-> 1, result |-> "none", successful |-> 0])

\* run_single_prompt returns value: main counts it and moves to the next prompt
Returned(progress, value) ==
  Return([progress |-> progress,
          index |-> out.val.index + 1,
          result |-> value,
          successful |-> out.val.successful + (IF value = "True" THEN 1 ELSE 0)])

\* the call goes on at another position, the file holding progress
Continue(progress) == Return([out.val EXCEPT !.progress = progress, !.result = "none"])

\* an exception leaves run_single_prompt and main
Terminated(e) == [exc |-> e, val |-> [out.val EXCEPT !.result = "raised"]]

\* main calls run_single_prompt for the next prompt, which records 'started'
RunSinglePrompt ==
  /\ op \in {"input", "returned"}
  /\ out.val.index <= Len(prompts)
  /\ op' = "started"
  /\ out' = Continue(update_progress(out.val.progress, PromptName, "started"))
  /\ UNCHANGED input

\* the check that the unified analysis exists
CheckUnifiedAnalysis ==
  /\ op = "started"
  /\ IF input.unified = "missing"
     THEN op' = "returned" /\ out' = Returned(out.val.progress, "False")
     ELSE op' = "load" /\ UNCHANGED out
  /\ UNCHANGED input

\* the load of the unified analysis, recorded as 'processing' or 'failed'
LoadUnifiedAnalysis ==
  /\ op = "load"
  /\ IF input.unified = "ok"
     THEN /\ op' = "extract"
          /\ out' = Continue(update_progress(out.val.progress, PromptName, "processing"))
     ELSE /\ op' = "returned"
          /\ out' = Returned(update_progress(out.val.progress, PromptName, "failed"), "False")
  /\ UNCHANGED input

\* the call of extract_real_ml_data, outside any try
ExtractContextData ==
  /\ op = "extract"
  /\ \E raises \in BOOLEAN :
       IF raises
       THEN op' = "terminated" /\ out' = Terminated("Exception")
       ELSE op' = "template" /\ UNCHANGED out
  /\ UNCHANGED input

\* the check that the prompt template exists
LoadPromptTemplate ==
  /\ op = "template"
  /\ \E exists \in BOOLEAN :
       IF exists
       THEN op' = "run" /\ UNCHANGED out
       ELSE op' = "returned" /\ out' = Returned(out.val.progress, "False")
  /\ UNCHANGED input

\* the call of the runner and the record of its result
RunClaudePrompt ==
  /\ op = "run"
  /\ \E result \in RunnerResults :
       CASE result = "success" ->
              /\ op' = "returned"
              /\ out' = Returned(update_progress(out.val.progress, PromptName, "completed"), "True")
         [] result = "error" ->
              /\ op' = "returned"
              /\ out' = Returned(update_progress(out.val.progress, PromptName, "failed"), "False")
         [] result = "raises" ->
              /\ op' = "terminated"
              /\ out' = Terminated("Exception")
  /\ UNCHANGED input

\* main returns after the last prompt
MainReturns ==
  /\ op = "returned"
  /\ out.val.index > Len(prompts)
  /\ op' = "exit"
  /\ out' = Return([out.val EXCEPT !.result =
                      IF out.val.successful = Len(prompts) THEN "0" ELSE "1"])
  /\ UNCHANGED input

NextProgress ==
  \/ RunSinglePrompt
  \/ CheckUnifiedAnalysis
  \/ LoadUnifiedAnalysis
  \/ ExtractContextData
  \/ LoadPromptTemplate
  \/ RunClaudePrompt
  \/ MainReturns

SpecProgress == InitProgress /\ [][NextProgress]_vars


\* the step ends a call of run_single_prompt: it returns or an exception
\* leaves it
CallEnds == op' \in {"returned", "terminated"}

\* C29: once 'started' is recorded for a prompt, a call of run_single_prompt
\* that returns False or is ended by an exception leaves the recorded status
\* 'failed' and a call that returns True leaves it 'completed'; a finished
\* call never leaves 'started' or 'processing' behind.
C29_ProgressFinal ==
  [][(CallEnds /\ out.val.progress[PromptName] # "absent") =>
       /\ out'.val.result = "True" => out'.val.progress[PromptName] = "completed"
       /\ out'.val.result \in {"False", "raised"} => out'.val.progress[PromptName] = "failed"
       /\ out'.val.progress[PromptName] \notin {"started", "processing"}]_vars

====
